---- MODULE Spec2Model ----
(***************************************************************************)
(* Pick-clock scheduling and queue enforcement of the bnsldraft Flask app  *)
(* (src/draft_order_page.py, src/baseball.py, src/debug.py).               *)
(*                                                                         *)
(* Time is the America/New_York wall clock in whole hours counted from     *)
(* 2025-11-01 00:00 (day 0, a Saturday): t = 24 * day + hour.  All aware   *)
(* datetimes of the program carry the same tzinfo object, so Python        *)
(* compares and subtracts them by wall-clock value, which is what the      *)
(* integers here are.                                                      *)
(*                                                                         *)
(* Row indexes are the 0-based positions of the rows of draft_order in     *)
(* ORDER BY round, pick; the row at index i has id i + 1.  player_id 0 and *)
(* drafted_at 0 stand for SQL NULL, franchise "" for NULL or '';           *)
(* drafted_at 1 stands for any timestamp.                                  *)
(***************************************************************************)
EXTENDS Integers, Sequences, FiniteSets, TLC

VARIABLES
    picks,          \* draft_order rows: [0..total-1 -> [team, player_id, drafted_at]]
    players,        \* players rows: [id -> [franchise, eligible]]
    draft_queue,    \* draft_queue rows: set of [id, team, player_id, position]
    team_prefs,     \* team_prefs rows: [team -> "none" | "end" | "start"]
    overrides,      \* pick_overrides rows: [subset of pick ids -> raw scheduled_time]
    last_on_clock,  \* app_meta['last_on_clock_pick_id'], 0 when no row
    now,            \* the wall clock, datetime.now(tz=EASTERN)
    pc,             \* per request thread: the statement it is at
    loc             \* per request thread: its local variables

vars == <<picks, players, draft_queue, team_prefs, overrides, last_on_clock, now, pc, loc>>

---------------------------------------------------------------------------
(* Program constants *)

DAY_FIRST_HOUR == 9
DAY_LAST_HOUR == 18
END_OF_DAY_MISS_HOUR == 19
PICKS_PER_DAY == DAY_LAST_HOUR - DAY_FIRST_HOUR + 1
SAFETY_DAYS == 3650
LAST_PICK_GRACE_DAYS == 36500
\* DRAFT_START = 2025-11-01 09:00 is a Saturday: date.weekday() = 5 (Monday = 0)
DRAFT_START_WEEKDAY == 5
\* UTC hour (counted from 2025-11-01 00:00 UTC) at which America/New_York
\* leaves daylight time: 2025-11-02 06:00 UTC
DST_END_UTC == 30
\* datetime() accepts hours 0..23 only
MAX_HOUR == 23

(* Bounds of the model *)

MaxPicks == 4       \* SpecSched: longest draft order
CalPicks == 11      \* SpecCal: longest draft order
MaxNow == 34        \* last wall-clock hour the clock reaches (day 1, 10:00)
MaxOverrides == 2   \* most rows of pick_overrides
NPicks == 3         \* Spec: longest draft order
NPlayers == 2       \* Spec: eligible players (one more is not eligible)
MaxPosition == 2    \* Spec: largest draft_queue.position api_queue_add hands out
LastTick == 11      \* Spec: last wall-clock hour the clock reaches (day 0, 11:00)
WalkPicks == 7      \* SpecWalk: longest draft order

---------------------------------------------------------------------------
(* Wall-clock helpers *)

DayOf(t) == t \div 24
HourOf(t) == t % 24
\* datetime(day.year, day.month, day.day, hour, 0, 0, tzinfo=EASTERN)
At(day, hour) == 24 * day + hour
\* date.weekday() of day d, Monday = 0 .. Sunday = 6
Weekday(d) == (d + DRAFT_START_WEEKDAY) % 7

Min(S) == CHOOSE x \in S : \A y \in S : x <= y

\* the element of a one-element set.  Only({e(v) : v \in {x}}) is e with
\* the local variable v holding the value of x, evaluated once
Only(S) == CHOOSE y \in S : TRUE

\* dt.astimezone(EASTERN) of an instant given as a UTC hour count: UTC-4
\* while daylight time lasts, UTC-5 after it
astimezone_eastern(utc) == IF utc < DST_END_UTC THEN utc - 4 ELSE utc - 5

---------------------------------------------------------------------------
(* SlotCalendar: base_slot_for_index *)

\* mutant: the hours run on past the last slot hour of the first day
base_slot_for_index_NoWrap(i) == At(0, DAY_FIRST_HOUR + i)

base_slot_for_index(i) ==
    LET day_idx == i \div PICKS_PER_DAY
        offset_in_day == i % PICKS_PER_DAY
        slot_hour == DAY_FIRST_HOUR + offset_in_day
    IN  At(day_idx, slot_hour)

---------------------------------------------------------------------------
(* Override loading: _load_picks_overrides_and_designated *)

\* a raw scheduled_time text: an ISO instant (as a UTC hour) or text that
\* datetime.fromisoformat rejects
IsoUtc(h) == [ok |-> TRUE, utc |-> h]
Malformed == [ok |-> FALSE, utc |-> 0]

\* mutant: every row is taken, parsed or not
ParsedOverrides_KeepMalformed(ov) ==
    [id \in DOMAIN ov |-> astimezone_eastern(ov[id].utc)]

\* the dict `overrides`: rows that parse, converted to Eastern
ParsedOverrides(ov) ==
    [id \in {k \in DOMAIN ov : ov[k].ok} |-> astimezone_eastern(ov[id].utc)]

Total(pk) == Cardinality(DOMAIN pk)
Idxs(pk) == DOMAIN pk

\* designated[idx] = overrides.get(rec["id"], base_slot_for_index(idx))
Designated(pk, ov) ==
    LET parsed == ParsedOverrides(ov)
    IN  [i \in Idxs(pk) |->
            IF (i + 1) \in DOMAIN parsed THEN parsed[i + 1] ELSE base_slot_for_index(i)]

\* mutant: the last pick's deadline without the 36500-day grace
NextDeadlines_NoGrace(pk, des) ==
    [i \in Idxs(pk) |-> IF i + 1 < Total(pk) THEN des[i + 1] ELSE des[i]]

\* next_deadlines[i]
NextDeadlines(pk, des) ==
    [i \in Idxs(pk) |->
        IF i + 1 < Total(pk) THEN des[i + 1] ELSE des[i] + 24 * LAST_PICK_GRACE_DAYS]

\* mutant: only the pick that holds player 1 counts as drafted
Drafted_OnlyPlayerOne(pk, i) == pk[i].player_id = 1

Drafted(pk, i) == pk[i].player_id # 0
UndraftedIdxs(pk) == {i \in Idxs(pk) : ~Drafted(pk, i)}

---------------------------------------------------------------------------
(* ScheduleResolver: _compute_scheduled_times *)

\* the elements of a set of integers as a list in ascending order
RECURSIVE AscendingSeq(_)
AscendingSeq(S) ==
    IF S = {} THEN <<>> ELSE LET m == Min(S) IN <<m>> \o AscendingSeq(S \ {m})

\* mutant: a pick counts as missed from its own designated time on
IsMissed_OwnTime(des, nd, i, t) == t >= des[i]

\* pass 1: is undrafted pick i missed as of now (now >= next_deadlines[i])
IsMissed(des, nd, i, t) == t >= nd[i]

MissedIdxs(pk, des, t) ==
    LET nd == NextDeadlines(pk, des)
    IN  {i \in UndraftedIdxs(pk) : IsMissed(des, nd, i, t)}

\* missed_by_day.get(day, []): the loop `for i in undrafted_idxs` appends in
\* index order
missed_by_day(pk, des, t, day) ==
    AscendingSeq({i \in MissedIdxs(pk, des, t) : DayOf(des[i]) = day})

\* mutant: the carryover queued ahead of the day's own misses
evening_queue_CarryFirst(todays_misses, carryover_eod) == carryover_eod \o todays_misses

\* evening_queue of one day of the walk
evening_queue(todays_misses, carryover_eod) == todays_misses \o carryover_eod

\* mutant: every queue position gets the first overflow hour
slot_dt_SameHour(day, j) == At(day, END_OF_DAY_MISS_HOUR)

\* mutant: overflow slots counted from the first slot hour of the day
slot_dt_FromFirstHour(day, j) == At(day, DAY_FIRST_HOUR + j)

\* slot_dt of queue position j (0-based) on `day`
slot_dt(day, j) == At(day, END_OF_DAY_MISS_HOUR + j)

\* next_deadline of queue position j (0-based) of a queue of length n on `day`
slot_deadline(day, j, n) ==
    IF j + 1 < n THEN At(day, END_OF_DAY_MISS_HOUR + j + 1)
                 ELSE At(day + 1, DAY_FIRST_HOUR)

\* mutant: no entry is ever re-missed
IsReMissed_Never(day, j, n, t) == FALSE

\* is the entry at position j re-missed
IsReMissed(day, j, n, t) == t >= slot_deadline(day, j, n)

\* does building the datetimes of position j raise ValueError
SlotRaises(j, n) ==
    \/ END_OF_DAY_MISS_HOUR + j > MAX_HOUR
    \/ (j + 1 < n /\ END_OF_DAY_MISS_HOUR + j + 1 > MAX_HOUR)

\* one iteration of the while loop over one day's queue
QueuePass(queue, day, t) ==
    LET n == Len(queue)
        remiss == {k \in 1..n : IsReMissed(day, k - 1, n, t)}
    IN  [err |-> \E k \in 1..n : SlotRaises(k - 1, n),
         carry |-> [m \in 1..Cardinality(remiss) |->
                      queue[CHOOSE k \in remiss :
                              Cardinality({x \in remiss : x < k}) = m - 1]],
         placed |-> [idx \in {queue[k] : k \in (1..n) \ remiss} |->
                      slot_dt(day, (CHOOSE k \in 1..n : queue[k] = idx) - 1)]]

\* the backstop after the loop: leftovers go to `day` from 19:00 on
Backstop(carry, day, st, safety_days) ==
    [err |-> \E k \in 1..Len(carry) : END_OF_DAY_MISS_HOUR + (k - 1) > MAX_HOUR,
     st |-> [idx \in {carry[k] : k \in 1..Len(carry)} |->
               slot_dt(day, (CHOOSE k \in 1..Len(carry) : carry[k] = idx) - 1)] @@ st,
     days |-> safety_days]

RECURSIVE evening_walk(_, _, _, _, _, _, _)
evening_walk(pk, des, t, day, carryover_eod, st, safety_days) ==
    IF Cardinality(DOMAIN st) < Cardinality(UndraftedIdxs(pk))
          /\ safety_days < SAFETY_DAYS
    THEN Only({
            IF pass.err
            THEN [err |-> TRUE, st |-> st, days |-> safety_days]
            ELSE Only({evening_walk(pk, des, t, day + 1, pass.carry, placed,
                                    safety_days + 1) :
                          placed \in {pass.placed @@ st}}) :
            pass \in {QueuePass(evening_queue(missed_by_day(pk, des, t, day),
                                              carryover_eod), day, t)}})
    ELSE Backstop(carryover_eod, day, st, safety_days)

\* the day the walk starts on
walk_start_day(pk, des) ==
    IF Idxs(pk) # {} THEN DayOf(Min({des[i] : i \in Idxs(pk)}))
                     ELSE DayOf(base_slot_for_index(0))

\* _compute_scheduled_times(now): err is a ValueError raised out of it, st the
\* dict scheduled_time it returns otherwise, days the value of safety_days
compute_scheduled_times(pk, ov, t) ==
    Only({Only({evening_walk(pk, des, t, walk_start_day(pk, des), <<>>, direct, 0) :
                   direct \in {[i \in UndraftedIdxs(pk) \ MissedIdxs(pk, des, t) |->
                                   des[i]]}}) :
             des \in {Designated(pk, ov)}})

\* evening_queue as the walk builds it on `day`: that day's misses and what
\* the pass over the queue of the day before carried over
RECURSIVE queue_on_day(_, _, _, _)
queue_on_day(pk, des, t, day) ==
    IF day < walk_start_day(pk, des) THEN <<>>
    ELSE evening_queue(missed_by_day(pk, des, t, day),
                       QueuePass(queue_on_day(pk, des, t, day - 1), day - 1, t).carry)

\* scheduled_time.get(i, designated[i])
ScheduledOf(res, des, i) == IF i \in DOMAIN res.st THEN res.st[i] ELSE des[i]

---------------------------------------------------------------------------
(* OnClockSelector: get_current_on_clock_pick, get_current_pick_info *)

\* mutant: a tie on the time replaces the best pick by the later one
KeyLess_TieToLater(t1, i1, t2, i2) == t1 <= t2

\* mutant: the order of the picks decides, whatever the times
KeyLess_IndexFirst(t1, i1, t2, i2) == i1 < i2

\* key < best_key on the tuples (t, i)
KeyLess(t1, i1, t2, i2) == t1 < t2 \/ (t1 = t2 /\ i1 < i2)

\* the selection loop `for i, rec in enumerate(picks)` from index i on, with
\* best the best_idx so far (-1 for None)
RECURSIVE select_loop(_, _, _, _, _)
select_loop(pk, des, res, i, best) ==
    IF i >= Total(pk) THEN best
    ELSE IF Drafted(pk, i) THEN select_loop(pk, des, res, i + 1, best)
    ELSE IF best = -1
            \/ KeyLess(ScheduledOf(res, des, i), i, ScheduledOf(res, des, best), best)
         THEN select_loop(pk, des, res, i + 1, i)
         ELSE select_loop(pk, des, res, i + 1, best)

best_idx(pk, ov, res) ==
    Only({select_loop(pk, des, res, 0, -1) : des \in {Designated(pk, ov)}})

\* get_current_on_clock_pick(now): err when the resolver raised, else idx =
\* best_idx (-1 for a None result)
get_current_on_clock_pick(pk, ov, t) ==
    Only({[err |-> res.err, idx |-> IF res.err THEN -1 ELSE best_idx(pk, ov, res)] :
             res \in {compute_scheduled_times(pk, ov, t)}})

\* mutant: the deadline taken from the next pick's resolved time
get_current_pick_info_ResolvedDeadline(pk, ov, t) ==
    Only({Only({LET des == Designated(pk, ov)
                IN  [err |-> res.err /\ Total(pk) # 0,
                     idx |-> b,
                     scheduled |-> IF b >= 0 THEN ScheduledOf(res, des, b) ELSE -1,
                     has_deadline |-> b >= 0 /\ b + 1 < Total(pk),
                     deadline |-> IF b >= 0 /\ b + 1 < Total(pk)
                                  THEN ScheduledOf(res, des, b + 1) ELSE -1] :
                   b \in {IF res.err \/ Total(pk) = 0 THEN -1
                          ELSE best_idx(pk, ov, res)}}) :
             res \in {compute_scheduled_times(pk, ov, t)}})

\* get_current_pick_info(now), the same with the reported times
get_current_pick_info(pk, ov, t) ==
    Only({Only({LET des == Designated(pk, ov)
                IN  [err |-> res.err /\ Total(pk) # 0,
                     idx |-> b,
                     scheduled |-> IF b >= 0 THEN ScheduledOf(res, des, b) ELSE -1,
                     has_deadline |-> b >= 0 /\ b + 1 < Total(pk),
                     deadline |-> IF b >= 0 /\ b + 1 < Total(pk)
                                  THEN des[b + 1] ELSE -1] :
                   b \in {IF res.err \/ Total(pk) = 0 THEN -1
                          ELSE best_idx(pk, ov, res)}}) :
             res \in {compute_scheduled_times(pk, ov, t)}})

---------------------------------------------------------------------------
(* The stores *)

Teams == {"A", "B"}
Threads == {1, 2}

\* draft_order is imported once, in (round, pick) order; teams alternate
TeamOfPick(i) == IF i % 2 = 0 THEN "A" ELSE "B"
UndraftedRow(i) == [team |-> TeamOfPick(i), player_id |-> 0, drafted_at |-> 0]
DraftedRow(i, p) == [team |-> TeamOfPick(i), player_id |-> p, drafted_at |-> 1]

NoOverrides == [id \in {} |-> Malformed]
NoPrefs == [tm \in Teams |-> "none"]
IdleThreads == [th \in Threads |-> "idle"]
NoLocals == [th \in Threads |-> [op |-> "none"]]

\* scheduled_time texts an operator writes: 2025-11-01 08:00 and 19:00 EDT,
\* 2025-11-02 12:00 EST, and a text that does not parse
OverrideRaws == {IsoUtc(12), IsoUtc(23), IsoUtc(41), Malformed}

\* the clock before the first slot of the draft
StartNow == DAY_FIRST_HOUR - 1

---------------------------------------------------------------------------
(* Actions on the scheduling inputs *)

\* time passes
Tick(limit) ==
    /\ now < limit
    /\ now' = now + 1
    /\ UNCHANGED <<picks, players, draft_queue, team_prefs, overrides,
                   last_on_clock, pc, loc>>

\* INSERT INTO pick_overrides ... ON CONFLICT(draft_order_id) DO UPDATE
UpsertOverride(id, raw, maxRows) ==
    /\ id \in 1..Total(picks)
    /\ id \in DOMAIN overrides \/ Cardinality(DOMAIN overrides) < maxRows
    /\ overrides' = [k \in DOMAIN overrides \cup {id} |->
                        IF k = id THEN raw ELSE overrides[k]]
    /\ UNCHANGED <<picks, players, draft_queue, team_prefs, last_on_clock,
                   now, pc, loc>>

AdvanceNow == Tick(MaxNow)

SetOverride == \E id \in 1..MaxPicks, raw \in OverrideRaws :
                  UpsertOverride(id, raw, MaxOverrides)

SetOneOverride == \E id \in 1..CalPicks, raw \in OverrideRaws :
                  UpsertOverride(id, raw, 1)

---------------------------------------------------------------------------
(* SpecSched: the resolver and the selector over every draft order of up   *)
(* to MaxPicks picks, every set of drafted picks, the overrides an         *)
(* operator writes and every hour of the clock                             *)

\* pick i, when drafted, holds player i + 1, owned by the pick's team
PicksWithDrafted(T, D) ==
    [i \in 0..(T - 1) |-> IF i \in D THEN DraftedRow(i, i + 1) ELSE UndraftedRow(i)]
PlayersWithDrafted(T, D) ==
    [p \in 1..T |-> [franchise |-> IF (p - 1) \in D THEN TeamOfPick(p - 1) ELSE "",
                     eligible |-> 1]]

InitSched ==
    /\ \E T \in 1..MaxPicks : \E D \in SUBSET (0..(T - 1)) :
          /\ picks = PicksWithDrafted(T, D)
          /\ players = PlayersWithDrafted(T, D)
    /\ draft_queue = {}
    /\ team_prefs = NoPrefs
    /\ overrides = NoOverrides
    /\ last_on_clock = 0
    /\ now = StartNow
    /\ pc = IdleThreads
    /\ loc = NoLocals

NextSched == AdvanceNow \/ SetOverride

SpecSched == InitSched /\ [][NextSched]_vars

(* SpecCal: the slot calendar over draft orders of up to CalPicks picks,   *)
(* drafted in order up to some pick, with at most one override             *)

InitCal ==
    /\ \E T \in 1..CalPicks : \E k \in 0..T :
          /\ picks = PicksWithDrafted(T, 0..(k - 1))
          /\ players = PlayersWithDrafted(T, 0..(k - 1))
    /\ draft_queue = {}
    /\ team_prefs = NoPrefs
    /\ overrides = NoOverrides
    /\ last_on_clock = 0
    /\ now = StartNow
    /\ pc = IdleThreads
    /\ loc = NoLocals

NextCal == AdvanceNow \/ SetOneOverride

SpecCal == InitCal /\ [][NextCal]_vars

---------------------------------------------------------------------------
(* The database as one value, and the helpers of baseball.py on it *)

DB == [picks |-> picks, players |-> players, draft_queue |-> draft_queue,
       team_prefs |-> team_prefs, last_on_clock |-> last_on_clock]

\* draft_queue.id is AUTOINCREMENT and is read only by ORDER BY ... dq.id
\* among the rows of one team: the rows keep the order of their ids, as
\* ranks 1..n within their team
Renumber(rows) ==
    {[r EXCEPT !.id = Cardinality({q \in rows : q.team = r.team /\ q.id <= r.id})] :
        r \in rows}

\* remove_player_from_all_queues(player_id)
remove_player_from_all_queues(db, pid) ==
    [db EXCEPT !.draft_queue = Renumber({r \in db.draft_queue : r.player_id # pid})]

\* mutant: ORDER BY dq.position DESC, dq.id ASC
RowBefore_Descending(r, q) ==
    r.position > q.position \/ (r.position = q.position /\ r.id < q.id)

\* ORDER BY dq.position ASC, dq.id ASC
RowBefore(r, q) == r.position < q.position \/ (r.position = q.position /\ r.id < q.id)

RECURSIVE OrderedRows(_)
OrderedRows(rows) ==
    IF rows = {} THEN <<>>
    ELSE LET first == CHOOSE r \in rows : \A q \in rows \ {r} : RowBefore(r, q)
         IN  <<first>> \o OrderedRows(rows \ {first})

\* the rows of draft_queue JOIN players of one team
TeamRows(db, team) ==
    {r \in db.draft_queue : r.team = team /\ r.player_id \in DOMAIN db.players}

\* get_team_queue(team), as the list of player ids
get_team_queue(db, team) ==
    LET rows == OrderedRows(TeamRows(db, team))
    IN  [k \in 1..Len(rows) |-> rows[k].player_id]

\* WHERE (p.franchise IS NULL OR p.franchise = '') AND COALESCE(p.eligible,1) = 1
Available(db, pid) ==
    db.players[pid].franchise = "" /\ db.players[pid].eligible = 1

\* mutant: the top of the queue, owned or ineligible players included
get_team_queue_top_available_NoFilter(db, team) ==
    LET rows == OrderedRows(TeamRows(db, team))
    IN  IF Len(rows) = 0 THEN 0 ELSE rows[1].player_id

\* get_team_queue_top_available(team); 0 stands for None
get_team_queue_top_available(db, team) ==
    LET rows == OrderedRows({r \in TeamRows(db, team) : Available(db, r.player_id)})
    IN  IF Len(rows) = 0 THEN 0 ELSE rows[1].player_id

\* mutant: the two policies swapped
get_queue_mode_Swapped(db, team) == db.team_prefs[team] # "start"

\* get_queue_mode(team): True is start-of-clock, no row is end-of-clock
get_queue_mode(db, team) == db.team_prefs[team] = "start"

\* the teams with an address in TEAM_EMAILS: every franchise of the league
TEAM_EMAILS == {"A", "B"}

\* notify_if_new_on_clock(); mail_ok is whether send_email returns.  An
\* exception out of it is caught by every caller and changes nothing.
notify_if_new_on_clock(db, ov, t, mail_ok) ==
    Only({IF info.err \/ info.idx = -1 THEN db
          ELSE IF db.last_on_clock = info.idx + 1 THEN db
          ELSE IF db.picks[info.idx].team \in TEAM_EMAILS /\ ~mail_ok THEN db
          ELSE [db EXCEPT !.last_on_clock = info.idx + 1] :
             info \in {get_current_pick_info(db.picks, ov, t)}})

\* mutant: an e-mail at every call that finds a pick on the clock
notify_emits_EveryCall(db, ov, t, mail_ok) ==
    \E info \in {get_current_pick_info(db.picks, ov, t)} :
        /\ ~info.err
        /\ info.idx # -1
        /\ db.picks[info.idx].team \in TEAM_EMAILS
        /\ mail_ok

\* whether that call of notify_if_new_on_clock() sends its e-mail
notify_emits(db, ov, t, mail_ok) ==
    \E info \in {get_current_pick_info(db.picks, ov, t)} :
        /\ ~info.err
        /\ info.idx # -1
        /\ db.last_on_clock # info.idx + 1
        /\ db.picks[info.idx].team \in TEAM_EMAILS
        /\ mail_ok

\* mutant: a validation that does not look at eligible
validate_player_NoEligible(db, pid) ==
    IF pid \notin DOMAIN db.players THEN "player not found"
    ELSE IF db.players[pid].franchise # "" THEN "player already owned"
    ELSE "ok"

\* the validation of perform_draft_internal and api_draft: "ok", or the
\* error the attempt ends with
validate_player(db, pid) ==
    IF pid \notin DOMAIN db.players THEN "player not found"
    ELSE IF db.players[pid].franchise # "" THEN "player already owned"
    ELSE IF db.players[pid].eligible # 1 THEN "player not eligible"
    ELSE "ok"

\* mutant: the UPDATE of draft_order without drafted_at
assign_NoTimestamp(db, team, pid, draft_order_id) ==
    [db EXCEPT
        !.players = [q \in DOMAIN db.players |->
                        IF q = pid THEN [db.players[q] EXCEPT !.franchise = team]
                                   ELSE db.players[q]],
        !.picks = [i \in DOMAIN db.picks |->
                        IF i + 1 = draft_order_id
                        THEN [db.picks[i] EXCEPT !.player_id = pid]
                        ELSE db.picks[i]]]

\* UPDATE players SET franchise=? WHERE id=?; UPDATE draft_order SET
\* player_id=?, drafted_at=? WHERE id=?; commit
assign(db, team, pid, draft_order_id) ==
    [db EXCEPT
        !.players = [q \in DOMAIN db.players |->
                        IF q = pid THEN [db.players[q] EXCEPT !.franchise = team]
                                   ELSE db.players[q]],
        !.picks = [i \in DOMAIN db.picks |->
                        IF i + 1 = draft_order_id
                        THEN [db.picks[i] EXCEPT !.player_id = pid, !.drafted_at = 1]
                        ELSE db.picks[i]]]

\* mutant: a draft that leaves the queues alone
perform_draft_internal_KeepQueue(db, team, pid, draft_order_id) ==
    LET v == validate_player(db, pid)
    IN  IF v # "ok" THEN [raised |-> v, db |-> db]
        ELSE [raised |-> "ok", db |-> assign(db, team, pid, draft_order_id)]

\* perform_draft_internal(team, player_id, draft_order_id): raised is the
\* RuntimeError it ends with, or "ok"
perform_draft_internal(db, team, pid, draft_order_id) ==
    LET v == validate_player(db, pid)
    IN  IF v # "ok" THEN [raised |-> v, db |-> db]
        ELSE [raised |-> "ok",
              db |-> remove_player_from_all_queues(
                         assign(db, team, pid, draft_order_id), pid)]

\* a Phase 1 scan that does not pass over drafted picks
RECURSIVE phase1_scan_NoSkip(_, _, _, _)
phase1_scan_NoSkip(pk, nd, t, i) ==
    IF i >= Total(pk) THEN -1
    ELSE IF t >= nd[i] THEN i
    ELSE phase1_scan_NoSkip(pk, nd, t, i + 1)

\* mutant: a Phase 1 scan that stops at the first undrafted pick, missed or not
phase1_scan_NoDeadline(pk, nd, t, i) ==
    IF UndraftedIdxs(pk) = {} THEN -1
    ELSE CHOOSE j \in UndraftedIdxs(pk) : \A k \in UndraftedIdxs(pk) : j <= k

\* Phase 1 scan: the first undrafted pick in order with now >= its deadline;
\* -1 when the loop ends without one
RECURSIVE phase1_scan(_, _, _, _)
phase1_scan(pk, nd, t, i) ==
    IF i >= Total(pk) THEN -1
    ELSE IF Drafted(pk, i) THEN phase1_scan(pk, nd, t, i + 1)
    ELSE IF t >= nd[i] THEN i
    ELSE phase1_scan(pk, nd, t, i + 1)

\* the deadlines enforce_queue_actions builds from the rows it loaded
ND_of(pk, ov) == NextDeadlines(pk, Designated(pk, ov))

\* Phase 1 of enforce_queue_actions
enforce_phase1(db, ov, t, mail_ok) ==
    Only({LET team == db.picks[i].team
              pid == get_team_queue_top_available(db, team)
          IN  IF i = -1 THEN [raised |-> "ok", db |-> db, drafted |-> {}]
              ELSE IF get_queue_mode(db, team) \/ pid = 0
                   THEN [raised |-> "ok", db |-> db, drafted |-> {}]
              ELSE Only({[raised |-> d.raised,
                          db |-> notify_if_new_on_clock(d.db, ov, t, mail_ok),
                          drafted |-> IF d.raised = "ok" THEN {i} ELSE {}] :
                            d \in {perform_draft_internal(db, team, pid, i + 1)}}) :
             i \in {phase1_scan(db.picks, ND_of(db.picks, ov), t, 0)}})

\* mutant: a Phase 2 that drafts for the on-clock team whatever its policy
enforce_phase2_AnyMode(db, ov, t, mail_ok) ==
    Only({LET team == db.picks[info.idx].team
              pid == get_team_queue_top_available(db, team)
          IN  IF info.err THEN [raised |-> "ValueError", db |-> db, drafted |-> {}]
              ELSE IF info.idx = -1 THEN [raised |-> "ok", db |-> db, drafted |-> {}]
              ELSE IF pid = 0
                   THEN [raised |-> "ok", db |-> db, drafted |-> {}]
              ELSE Only({[raised |-> d.raised,
                          db |-> notify_if_new_on_clock(d.db, ov, t, mail_ok),
                          drafted |-> IF d.raised = "ok" THEN {info.idx} ELSE {}] :
                            d \in {perform_draft_internal(db, team, pid, info.idx + 1)}}) :
             info \in {get_current_pick_info(db.picks, ov, t)}})

\* Phase 2 of enforce_queue_actions
enforce_phase2(db, ov, t, mail_ok) ==
    Only({LET team == db.picks[info.idx].team
              pid == get_team_queue_top_available(db, team)
          IN  IF info.err THEN [raised |-> "ValueError", db |-> db, drafted |-> {}]
              ELSE IF info.idx = -1 THEN [raised |-> "ok", db |-> db, drafted |-> {}]
              ELSE IF ~get_queue_mode(db, team) \/ pid = 0
                   THEN [raised |-> "ok", db |-> db, drafted |-> {}]
              ELSE Only({[raised |-> d.raised,
                          db |-> notify_if_new_on_clock(d.db, ov, t, mail_ok),
                          drafted |-> IF d.raised = "ok" THEN {info.idx} ELSE {}] :
                            d \in {perform_draft_internal(db, team, pid, info.idx + 1)}}) :
             info \in {get_current_pick_info(db.picks, ov, t)}})

\* enforce_queue_actions(): mail_ok is whether the e-mails of this request
\* go out; drafted is the set of picks (indexes) it assigned
enforce_queue_actions(db, ov, t, mail_ok) ==
    IF Total(db.picks) = 0 THEN [raised |-> "ok", db |-> db, drafted |-> {}]
    ELSE Only({IF p1.raised # "ok" THEN p1
               ELSE Only({[raised |-> p2.raised, db |-> p2.db,
                           drafted |-> p1.drafted \cup p2.drafted] :
                             p2 \in {enforce_phase2(p1.db, ov, t, mail_ok)}}) :
                  p1 \in {enforce_phase1(db, ov, t, mail_ok)}})

\* mutant: the first undrafted pick in order, whatever the schedule
get_current_pick_FirstInOrder(db, ov, t) ==
    [err |-> FALSE,
     idx |-> IF UndraftedIdxs(db.picks) = {} THEN -1
             ELSE CHOOSE i \in UndraftedIdxs(db.picks) :
                     \A j \in UndraftedIdxs(db.picks) : i <= j]

\* get_current_pick(): the selector's pick; the progress counts it adds
\* are not modelled
get_current_pick(db, ov, t) == get_current_on_clock_pick(db.picks, ov, t)

\* api_draft() from the return of get_current_pick() on, `current` being
\* what that call returned: team is session's selected_team when it is the
\* authed team, "" otherwise; status is the HTTP status of the response
api_draft(db, ov, t, current, team, pid, mail_ok) ==
    LET v == validate_player(db, pid)
        written == assign(db, team, pid, current.idx + 1)
        notified == notify_if_new_on_clock(written, ov, t, mail_ok)
        cleaned == remove_player_from_all_queues(notified, pid)
    IN  IF current.err THEN [status |-> 500, db |-> db, drafted |-> {}]
        ELSE IF current.idx = -1 THEN [status |-> 400, db |-> db, drafted |-> {}]
        ELSE IF team = "" THEN [status |-> 401, db |-> db, drafted |-> {}]
        ELSE IF team # db.picks[current.idx].team
             THEN [status |-> 403, db |-> db, drafted |-> {}]
        ELSE IF v = "player not found" THEN [status |-> 404, db |-> db, drafted |-> {}]
        ELSE IF v # "ok" THEN [status |-> 409, db |-> db, drafted |-> {}]
        ELSE Only({[status |-> 204, db |-> enforced.db,
                    drafted |-> {current.idx} \cup enforced.drafted] :
                      enforced \in {enforce_queue_actions(c, ov, t, mail_ok) :
                                       c \in {cleaned}}})

\* mutant: a plain INSERT, without the UNIQUE(team, player_id) constraint
api_queue_add_NoUnique(db, team, pid) ==
    LET mine == {r \in db.draft_queue : r.team = team}
        next_pos == IF mine = {} THEN 1
                    ELSE 1 + (CHOOSE m \in {r.position : r \in mine} :
                                 \A r \in mine : r.position <= m)
        row == [id |-> Cardinality(mine) + 1, team |-> team,
                player_id |-> pid, position |-> next_pos]
    IN  IF pid <= 0 \/ pid \notin DOMAIN db.players THEN db
        ELSE IF db.players[pid].franchise # "" \/ db.players[pid].eligible # 1 THEN db
        ELSE [db EXCEPT !.draft_queue = db.draft_queue \cup {row}]

\* api_queue_add(): INSERT OR IGNORE at position max + 1
api_queue_add(db, team, pid) ==
    LET mine == {r \in db.draft_queue : r.team = team}
        next_pos == IF mine = {} THEN 1
                    ELSE 1 + (CHOOSE m \in {r.position : r \in mine} :
                                 \A r \in mine : r.position <= m)
        row == [id |-> Cardinality(mine) + 1, team |-> team,
                player_id |-> pid, position |-> next_pos]
    IN  IF pid <= 0 \/ pid \notin DOMAIN db.players THEN db
        ELSE IF db.players[pid].franchise # "" \/ db.players[pid].eligible # 1 THEN db
        ELSE IF \E r \in mine : r.player_id = pid THEN db
        ELSE [db EXCEPT !.draft_queue = db.draft_queue \cup {row}]

\* api_queue_remove()
api_queue_remove(db, team, pid) ==
    [db EXCEPT !.draft_queue =
        Renumber({r \in db.draft_queue : ~(r.team = team /\ r.player_id = pid)})]

\* api_queue_reorder(): UPDATE ... SET position=idx for idx, pid in
\* enumerate(order, start=1), a later entry of order overwriting an earlier
RECURSIVE reorder_rows(_, _, _, _)
reorder_rows(rows, team, order, idx) ==
    IF idx > Len(order) THEN rows
    ELSE reorder_rows(
            {IF r.team = team /\ r.player_id = order[idx]
                THEN [r EXCEPT !.position = idx] ELSE r : r \in rows},
            team, order, idx + 1)

api_queue_reorder(db, team, order) ==
    [db EXCEPT !.draft_queue = reorder_rows(db.draft_queue, team, order, 1)]

\* api_queue_mode() / set_queue_mode()
set_queue_mode(db, team, use_at_start) ==
    [db EXCEPT !.team_prefs[team] = IF use_at_start THEN "start" ELSE "end"]

---------------------------------------------------------------------------
(* Spec: the request handlers, each run to completion *)

SetDB(db) ==
    /\ picks' = db.picks
    /\ players' = db.players
    /\ draft_queue' = db.draft_queue
    /\ team_prefs' = db.team_prefs
    /\ last_on_clock' = db.last_on_clock

\* the lists a client posts to /api/queue/reorder: player ids, none twice
Orders ==
    {o \in UNION {[1..n -> 1..NPlayers] : n \in 1..NPlayers} :
        \A a \in DOMAIN o : \A b \in DOMAIN o : a # b => o[a] # o[b]}

\* POST /api/draft by a session of `team` ("" when not logged in)
ApiDraft ==
    \E current \in {get_current_pick(DB, overrides, now)} :
        \E team \in Teams \cup {""}, pid \in 0..(NPlayers + 1), mail_ok \in BOOLEAN :
            /\ \E r \in {api_draft(DB, overrides, now, current, team, pid, mail_ok)} :
                  SetDB(r.db)
            /\ UNCHANGED <<overrides, now, pc, loc>>

\* POST /tasks/enforce_queue, and the enforcement of GET /api/draft_status
EnforceQueue ==
    \E mail_ok \in BOOLEAN :
        /\ \E r \in {enforce_queue_actions(DB, overrides, now, mail_ok)} : SetDB(r.db)
        /\ UNCHANGED <<overrides, now, pc, loc>>

\* POST /tasks/scan_on_clock
ScanOnClock ==
    \E mail_ok \in BOOLEAN :
        /\ \E db \in {notify_if_new_on_clock(DB, overrides, now, mail_ok)} : SetDB(db)
        /\ UNCHANGED <<overrides, now, pc, loc>>

\* POST /api/queue/add
ApiQueueAdd ==
    \E team \in Teams, pid \in 0..(NPlayers + 1) :
        /\ \A r \in draft_queue : r.team = team => r.position < MaxPosition
        /\ SetDB(api_queue_add(DB, team, pid))
        /\ UNCHANGED <<overrides, now, pc, loc>>

\* POST /api/queue/remove
ApiQueueRemove ==
    \E team \in Teams, pid \in 0..(NPlayers + 1) :
        /\ SetDB(api_queue_remove(DB, team, pid))
        /\ UNCHANGED <<overrides, now, pc, loc>>

\* POST /api/queue/reorder
ApiQueueReorder ==
    \E team \in Teams, order \in Orders :
        /\ SetDB(api_queue_reorder(DB, team, order))
        /\ UNCHANGED <<overrides, now, pc, loc>>

\* POST /api/queue/mode
ApiQueueMode ==
    \E team \in Teams, use_at_start \in BOOLEAN :
        /\ SetDB(set_queue_mode(DB, team, use_at_start))
        /\ UNCHANGED <<overrides, now, pc, loc>>

\* an operator moves one pick after the first ahead of the first slot:
\* 2025-11-01 08:00 EDT
EditOverride ==
    \E id \in 2..NPicks : UpsertOverride(id, IsoUtc(12), 1)

ClockTick == Tick(LastTick)

\* players 1..NPlayers are eligible, player NPlayers + 1 is not
InitPlayers ==
    [p \in 1..(NPlayers + 1) |->
        [franchise |-> "", eligible |-> IF p <= NPlayers THEN 1 ELSE 0]]

Init ==
    /\ picks = PicksWithDrafted(NPicks, {})
    /\ players = InitPlayers
    /\ draft_queue = {}
    /\ team_prefs = NoPrefs
    /\ overrides = NoOverrides
    /\ last_on_clock = 0
    /\ now = DAY_FIRST_HOUR
    /\ pc = IdleThreads
    /\ loc = NoLocals

Next ==
    \/ ApiDraft
    \/ EnforceQueue
    \/ ScanOnClock
    \/ ApiQueueAdd
    \/ ApiQueueRemove
    \/ ApiQueueReorder
    \/ ApiQueueMode
    \/ EditOverride
    \/ ClockTick

Spec == Init /\ [][Next]_vars

---------------------------------------------------------------------------
(* SpecConc: two requests served at once.  Every request opens its own     *)
(* connection; a SELECT is one step, the UPDATEs up to conn.commit() are   *)
(* one step.  pc is the position of each thread, loc what it has read.     *)

Local(op, idx, team, pid) == [op |-> op, idx |-> idx, team |-> team, pid |-> pid]

Goto(th, label, l) ==
    /\ pc' = [pc EXCEPT ![th] = label]
    /\ loc' = [loc EXCEPT ![th] = l]

\* POST /api/draft up to "Not your pick": get_current_pick() reads the picks.
\* A request turned away here has written nothing.
DraftRead(th) ==
    /\ pc[th] = "idle"
    /\ \E team \in Teams, pid \in 1..NPlayers :
          LET current == get_current_pick(DB, overrides, now)
          IN  /\ ~current.err
              /\ current.idx # -1
              /\ team = picks[current.idx].team
              /\ Goto(th, "validate", Local("draft", current.idx, team, pid))
    /\ UNCHANGED <<picks, players, draft_queue, team_prefs, overrides,
                   last_on_clock, now>>

\* POST /tasks/enforce_queue or GET /api/draft_status arrives
EnforceBegin(th) ==
    /\ pc[th] = "idle"
    /\ Goto(th, "read1", Local("phase1", -1, "", 0))
    /\ UNCHANGED <<picks, players, draft_queue, team_prefs, overrides,
                   last_on_clock, now>>

\* enforce_queue_actions(): _load_picks_overrides_and_designated() and the
\* Phase 1 scan over the rows it loaded
EnforceRead1(th) ==
    /\ pc[th] = "read1"
    /\ LET i == phase1_scan(picks, ND_of(picks, overrides), now, 0)
       IN  IF i = -1 THEN Goto(th, "read2", Local("phase2", -1, "", 0))
           ELSE Goto(th, "choose", Local("phase1", i, picks[i].team, 0))
    /\ UNCHANGED <<picks, players, draft_queue, team_prefs, overrides,
                   last_on_clock, now>>

\* Phase 2: get_current_pick_info() reads the picks again
EnforceRead2(th) ==
    /\ pc[th] = "read2"
    /\ LET info == get_current_pick_info(picks, overrides, now)
       IN  IF info.err \/ info.idx = -1 THEN Goto(th, "idle", [op |-> "none"])
           ELSE Goto(th, "choose", Local("phase2", info.idx, picks[info.idx].team, 0))
    /\ UNCHANGED <<picks, players, draft_queue, team_prefs, overrides,
                   last_on_clock, now>>

\* get_queue_mode(team) and get_team_queue_top_available(team)
EnforceChoose(th) ==
    /\ pc[th] = "choose"
    /\ LET l == loc[th]
           pid == get_team_queue_top_available(DB, l.team)
           wanted == IF l.op = "phase1" THEN ~get_queue_mode(DB, l.team)
                                        ELSE get_queue_mode(DB, l.team)
       IN  IF wanted /\ pid # 0 THEN Goto(th, "validate", [l EXCEPT !.pid = pid])
           ELSE IF l.op = "phase1" THEN Goto(th, "read2", Local("phase2", -1, "", 0))
           ELSE Goto(th, "idle", [op |-> "none"])
    /\ UNCHANGED <<picks, players, draft_queue, team_prefs, overrides,
                   last_on_clock, now>>

\* SELECT franchise, eligible FROM players WHERE id=?  A player that fails
\* ends the request: api_draft returns 404 or 409, perform_draft_internal
\* raises out of enforce_queue_actions past the notification of its finally
Validate(th) ==
    /\ pc[th] = "validate"
    /\ IF validate_player(DB, loc[th].pid) = "ok"
       THEN /\ Goto(th, "write", loc[th])
            /\ UNCHANGED last_on_clock
       ELSE /\ Goto(th, "idle", [op |-> "none"])
            /\ IF loc[th].op = "draft" THEN UNCHANGED last_on_clock
               ELSE \E mail_ok \in BOOLEAN :
                       last_on_clock' =
                           notify_if_new_on_clock(DB, overrides, now, mail_ok).last_on_clock
    /\ UNCHANGED <<picks, players, draft_queue, team_prefs, overrides, now>>

\* UPDATE players ...; UPDATE draft_order ... WHERE id=?; conn.commit()
Write(th) ==
    /\ pc[th] = "write"
    /\ SetDB(assign(DB, loc[th].team, loc[th].pid, loc[th].idx + 1))
    /\ Goto(th, "after", loc[th])
    /\ UNCHANGED <<overrides, now>>

\* after the commit: notify_if_new_on_clock() and
\* remove_player_from_all_queues(), then what the caller runs next:
\* api_draft calls enforce_queue_actions(), Phase 1 falls through to Phase 2
AfterWrite(th) ==
    /\ pc[th] = "after"
    /\ \E mail_ok \in BOOLEAN :
          SetDB(remove_player_from_all_queues(
                    notify_if_new_on_clock(DB, overrides, now, mail_ok), loc[th].pid))
    /\ IF loc[th].op = "draft" THEN Goto(th, "read1", Local("phase1", -1, "", 0))
       ELSE IF loc[th].op = "phase1" THEN Goto(th, "read2", Local("phase2", -1, "", 0))
       ELSE Goto(th, "idle", [op |-> "none"])
    /\ UNCHANGED <<overrides, now>>

\* the INSERT OR IGNORE of api_queue_add with the position it has read:
\* UNIQUE(team, player_id) ON CONFLICT IGNORE drops a second row
queue_insert(db, team, pid) ==
    LET mine == {r \in db.draft_queue : r.team = team}
        next_pos == IF mine = {} THEN 1
                    ELSE 1 + (CHOOSE m \in {r.position : r \in mine} :
                                 \A r \in mine : r.position <= m)
        row == [id |-> Cardinality(mine) + 1, team |-> team,
                player_id |-> pid, position |-> next_pos]
    IN  IF \E r \in mine : r.player_id = pid THEN db
        ELSE [db EXCEPT !.draft_queue = db.draft_queue \cup {row}]

\* POST /api/queue/add up to "player not addable": the SELECT on players.
\* A request turned away here has written nothing.
QueueAddRead(th) ==
    /\ pc[th] = "idle"
    /\ \E team \in Teams, pid \in 1..NPlayers :
          /\ validate_player(DB, pid) = "ok"
          /\ Goto(th, "insert", Local("add", -1, team, pid))
    /\ UNCHANGED <<picks, players, draft_queue, team_prefs, overrides,
                   last_on_clock, now>>

\* SELECT COALESCE(MAX(position), 0) ...; INSERT OR IGNORE ...; conn.commit()
QueueAddInsert(th) ==
    /\ pc[th] = "insert"
    /\ SetDB(queue_insert(DB, loc[th].team, loc[th].pid))
    /\ Goto(th, "idle", [op |-> "none"])
    /\ UNCHANGED <<overrides, now>>

\* the queues the teams have built: each team queues a list of players,
\* none twice, at positions 1, 2, ...  The requests arrive when the first
\* pick opens or after LastTick, when two deadlines have passed.
QueueOf(team, order) ==
    {[id |-> k, team |-> team, player_id |-> order[k], position |-> k] :
        k \in DOMAIN order}

InitConc ==
    /\ picks = PicksWithDrafted(NPicks, {})
    /\ players = InitPlayers
    /\ \E qa \in Orders \cup {<<>>}, qb \in Orders \cup {<<>>} :
          draft_queue = QueueOf("A", qa) \cup QueueOf("B", qb)
    /\ team_prefs \in [Teams -> {"none", "start"}]
    /\ overrides = NoOverrides
    /\ last_on_clock = 0
    /\ now \in {DAY_FIRST_HOUR, LastTick}
    /\ pc = IdleThreads
    /\ loc = NoLocals

NextConc ==
    \E th \in Threads :
        \/ DraftRead(th)
        \/ EnforceBegin(th)
        \/ EnforceRead1(th)
        \/ EnforceRead2(th)
        \/ EnforceChoose(th)
        \/ Validate(th)
        \/ Write(th)
        \/ AfterWrite(th)
        \/ QueueAddRead(th)
        \/ QueueAddInsert(th)

SpecConc == InitConc /\ [][NextConc]_vars

---------------------------------------------------------------------------
(* The schedule of the current state *)

Des == Designated(picks, overrides)
ND == NextDeadlines(picks, Des)
Res == compute_scheduled_times(picks, overrides, now)
Undrafted == UndraftedIdxs(picks)
Missed == MissedIdxs(picks, Des, now)

Parsed == ParsedOverrides(overrides)
OnClock == get_current_on_clock_pick(picks, overrides, now)
Info == get_current_pick_info(picks, overrides, now)
\* the rest weekday of the specification: Sunday, date.weekday() = 6
OnRestDay(t) == Weekday(DayOf(t)) = 6
\* an undrafted pick sits in an overflow slot of the walk
InOverflow(i) == i \in Missed /\ i \in DOMAIN Res.st

---------------------------------------------------------------------------
(* Claims on the assignment of picks *)

Assigned(pk) == {i \in DOMAIN pk : pk[i].player_id # 0}
Owned(pl) == {p \in DOMAIN pl : pl[p].franchise # ""}

\* C1: after any sequence of manual drafts, enforcement ticks, queue edits,
\* override edits and advances of now, a pick whose player is set keeps
\* exactly that player: no operation clears its player_id or replaces it by
\* a different player.
C1_AssignedPickKeepsPlayer ==
    [][\A i \in Assigned(picks) : picks'[i].player_id = picks[i].player_id]_vars

\* two picks are assigned to different players, an override has been
\* written, a deadline has passed and the notification has moved on
C1_Witness ==
    /\ Cardinality(Assigned(picks)) >= 2
    /\ Cardinality(Owned(players)) >= 2
    /\ now > DAY_FIRST_HOUR
    /\ DOMAIN overrides # {}
    /\ last_on_clock = NPicks

\* C2: when two triggers interleave on the same still-unassigned pick,
\* exactly one assignment takes effect: a trigger that reaches its write
\* when the pick it read is already assigned writes no player to the pick
\* and makes no further player owned.
C2_LoserChangesNothing ==
    [][\A th \in Threads :
          (/\ pc[th] = "write"
           /\ pc'[th] = "after"
           /\ loc[th].idx \in Assigned(picks))
              => picks' = picks /\ players' = players]_vars

\* C2, on the states: every assignment that took effect made one player
\* owned, so there are as many owned players as assigned picks
C2_OneOwnedPlayerPerAssignedPick ==
    Cardinality(Owned(players)) = Cardinality(Assigned(picks))

---------------------------------------------------------------------------
(* Claims on the schedule.  A schedule exists when the resolver returns    *)
(* (Res.err is FALSE); the claims below speak of the schedule it returns.  *)

\* C3: for every undrafted pick i and every now, if now < nextDeadline(i)
\* then the resolved scheduled time of i is its designated time (override if
\* present, else base slot).
C3_NotMissedKeepsDesignated ==
    ~Res.err =>
        \A i \in Undrafted :
            now < ND[i] => (i \in DOMAIN Res.st /\ Res.st[i] = Des[i])

\* a pick whose own designated time has passed but whose deadline has not,
\* next to a missed pick that the walk moved
C3_Witness ==
    /\ ~Res.err
    /\ \E i \in Undrafted : \E k \in Undrafted \ {i} :
          /\ Des[i] <= now /\ now < ND[i] /\ Res.st[i] = Des[i]
          /\ k \in Missed /\ Res.st[k] # Des[k]

\* C4: the on-clock selector returns none iff every pick is assigned;
\* otherwise it returns the undrafted pick that minimises (scheduled time,
\* index), ties on the time going to the lower index.  Both selectors.
C4_OnClockIsArgMin ==
    ~Res.err =>
        /\ OnClock.idx = Info.idx
        /\ (OnClock.idx = -1) <=> (Undrafted = {})
        /\ OnClock.idx # -1 =>
              /\ OnClock.idx \in Undrafted
              /\ \A k \in Undrafted \ {OnClock.idx} :
                    \/ ScheduledOf(Res, Des, OnClock.idx) < ScheduledOf(Res, Des, k)
                    \/ /\ ScheduledOf(Res, Des, OnClock.idx) = ScheduledOf(Res, Des, k)
                       /\ OnClock.idx < k

\* the selector returns a pick that ties on time with a later pick while an
\* earlier undrafted pick sits in overflow
C4_Witness ==
    /\ ~Res.err
    /\ OnClock.idx # -1
    /\ \E k \in Undrafted : k < OnClock.idx /\ InOverflow(k)
    /\ \E k \in Undrafted : /\ k > OnClock.idx
                            /\ ScheduledOf(Res, Des, k) = ScheduledOf(Res, Des, OnClock.idx)

\* the selector returns none on a completed draft
C4_WitnessNone == Total(picks) > 1 /\ Undrafted = {} /\ OnClock.idx = -1 /\ ~OnClock.err

\* C5: for every pick index i, with or without an override, designated(i)
\* never falls on the rest weekday (Sunday).
C5_DesignatedNeverOnRestDay ==
    \A i \in Idxs(picks) : ~OnRestDay(Des[i])

\* C6: an override that puts a pick's designated time on the rest weekday is
\* relocated to the next eligible day (Monday) at the same clock time.
C6_RestDayOverrideRelocated ==
    \A i \in Idxs(picks) :
        ((i + 1) \in DOMAIN Parsed /\ OnRestDay(Parsed[i + 1]))
            => Des[i] = Parsed[i + 1] + 24

C8_LastPickNeverMissed ==
    LET last == Total(picks) - 1
    IN  (last >= 0 /\ last \in Undrafted) =>
            /\ last \notin Missed
            /\ ~Res.err => (last \in DOMAIN Res.st /\ Res.st[last] = Des[last])

\* the last pick is undrafted a day after its designated time, while another
\* pick sits in overflow
C8_Witness ==
    LET last == Total(picks) - 1
    IN  /\ last \in Undrafted
        /\ now >= Des[last] + 24
        /\ ~Res.err
        /\ Res.st[last] = Des[last]
        /\ \E k \in Undrafted : InOverflow(k)

\* C9 as stated: on a day of the walk the carried-over entries come before
\* that day's own misses: of two picks finalised in overflow on the same
\* day, one carried over from an earlier day and one bucketed on that day,
\* the carried-over one has the earlier slot.
C9_CarryoverBeforeTodaysMisses ==
    ~Res.err =>
        \A a \in Missed : \A b \in Missed :
            (/\ DayOf(Res.st[a]) = DayOf(Res.st[b])
             /\ DayOf(Des[a]) < DayOf(Res.st[a])
             /\ DayOf(Des[b]) = DayOf(Res.st[b]))
                => Res.st[a] < Res.st[b]

\* C9 amended: the queue of a day is that day's own misses followed by the
\* carryover: of two such picks the one bucketed on that day has the earlier
\* slot.
C9_TodaysMissesBeforeCarryover ==
    ~Res.err =>
        \A a \in Missed : \A b \in Missed :
            (/\ DayOf(Res.st[a]) = DayOf(Res.st[b])
             /\ DayOf(Des[a]) < DayOf(Res.st[a])
             /\ DayOf(Des[b]) = DayOf(Res.st[b]))
                => Res.st[b] < Res.st[a]

\* a carried-over pick and a pick bucketed that day, finalised the same day
C9_Witness ==
    /\ ~Res.err
    /\ \E a \in Missed : \E b \in Missed :
          /\ DayOf(Res.st[a]) = DayOf(Res.st[b])
          /\ DayOf(Des[a]) < DayOf(Res.st[a])
          /\ DayOf(Des[b]) = DayOf(Res.st[b])

\* C10: within one day's miss bucket the entries are queued in ascending
\* order of their own designated time: of two picks first missed on the same
\* day and finalised on the same day, the one with the earlier designated
\* time has the earlier slot, also when it is the later pick in order.
C10_BucketOrderedByDesignated ==
    ~Res.err =>
        \A a \in Missed : \A b \in Missed :
            (/\ a > b
             /\ DayOf(Des[a]) = DayOf(Des[b])
             /\ Des[a] < Des[b]
             /\ DayOf(Res.st[a]) = DayOf(Res.st[b]))
                => Res.st[a] < Res.st[b]

\* the days the walk visits up to the day after now
WalkDays == walk_start_day(picks, Des)..(DayOf(now) + 1)
\* the walk's queue on day d
QueueOn(d) == queue_on_day(picks, Des, now, d)

\* C11: the overflow slots of one day are the hourly times 19:00 + j for
\* queue position j = 0, 1, 2, ...: a pick finalised on a day sits at
\* 19:00 + its queue position on that same day, and no two picks finalised
\* in overflow on one day share a scheduled time.
C11_OverflowSlotsHourlyByPosition ==
    ~Res.err =>
        /\ \A d \in WalkDays : \A k \in 1..Len(QueueOn(d)) :
              DayOf(Res.st[QueueOn(d)[k]]) = d
                 => /\ Res.st[QueueOn(d)[k]] = At(d, END_OF_DAY_MISS_HOUR + (k - 1))
                    /\ END_OF_DAY_MISS_HOUR + (k - 1) <= MAX_HOUR
        /\ \A i \in Missed : \E k \in 1..Len(QueueOn(DayOf(Res.st[i]))) :
              QueueOn(DayOf(Res.st[i]))[k] = i
        /\ \A a \in Missed : \A b \in Missed \ {a} : Res.st[a] # Res.st[b]

\* three picks finalised in overflow on one day, at consecutive hours
C11_Witness ==
    /\ ~Res.err
    /\ \E a \in Missed : \E b \in Missed : \E c \in Missed :
          /\ HourOf(Res.st[a]) = END_OF_DAY_MISS_HOUR
          /\ Res.st[b] = Res.st[a] + 1
          /\ Res.st[c] = Res.st[b] + 1

\* C12: no missed pick is finalised in an overflow slot whose calendar day
\* is strictly earlier than now's calendar day: such an entry is re-missed
\* and carried on, also while now is before the slot's own deadline.
C12_NoOverflowSlotOnEarlierDay ==
    ~Res.err => \A i \in Missed : DayOf(Res.st[i]) >= DayOf(now)

\* C13: for every draft order, override map, assignment state and now the
\* resolver returns a scheduled time for every undrafted pick and never ends
\* in an error, however many missed picks are queued on one day.
C13_ResolverTotal ==
    /\ ~Res.err
    /\ \A i \in Undrafted : i \in DOMAIN Res.st

---------------------------------------------------------------------------
(* SpecWalk: one call of _compute_scheduled_times, one iteration of its    *)
(* while loop per step.  Thread 1 runs the call; loc[1] holds its local    *)
(* variables day, carryover_eod, scheduled_time and safety_days.  The      *)
(* draft order is drafted in order up to some pick; now is an afternoon or *)
(* an early morning of the draft, or a morning SAFETY_DAYS days later.     *)

WalkNows ==
    {At(0, 15), At(1, DAY_FIRST_HOUR - 1),
     At(SAFETY_DAYS, DAY_FIRST_HOUR - 1), At(SAFETY_DAYS, DAY_FIRST_HOUR + 1)}

WalkLocals(day, carryover_eod, st, safety_days) ==
    [op |-> "walk", day |-> day, carryover_eod |-> carryover_eod, st |-> st,
     safety_days |-> safety_days]

\* mutant: the loop without its cap on the days
loop_condition_NoCap(st, pk, safety_days) ==
    Cardinality(DOMAIN st) < Cardinality(UndraftedIdxs(pk))

\* while len(scheduled_time) < len(undrafted_idxs) and safety_days < 3650
loop_condition(st, pk, safety_days) ==
    Cardinality(DOMAIN st) < Cardinality(UndraftedIdxs(pk)) /\ safety_days < SAFETY_DAYS

\* the call up to the loop: pass 1 and the starting day
WalkBegin ==
    /\ pc[1] = "idle"
    /\ Goto(1, "loop",
            WalkLocals(walk_start_day(picks, Des), <<>>,
                       [i \in Undrafted \ Missed |-> Des[i]], 0))
    /\ UNCHANGED <<picks, players, draft_queue, team_prefs, overrides,
                   last_on_clock, now>>

\* one iteration of the while loop; datetime() raising ends the call
WalkDay ==
    /\ pc[1] = "loop"
    /\ loop_condition(loc[1].st, picks, loc[1].safety_days)
    /\ \E des \in {Des} :
       \E bucket \in {missed_by_day(picks, des, now, loc[1].day)} :
       \E pass \in {QueuePass(evening_queue(bucket, loc[1].carryover_eod),
                               loc[1].day, now)} :
       \E l \in {IF pass.err THEN loc[1]
                  ELSE WalkLocals(loc[1].day + 1, pass.carry, pass.placed @@ loc[1].st,
                                  loc[1].safety_days + 1)} :
          Goto(1, IF pass.err THEN "raised" ELSE "loop", l)
    /\ UNCHANGED <<picks, players, draft_queue, team_prefs, overrides,
                   last_on_clock, now>>

\* the loop ends: the backstop and the return
WalkExit ==
    /\ pc[1] = "loop"
    /\ ~loop_condition(loc[1].st, picks, loc[1].safety_days)
    /\ \E b \in {Backstop(loc[1].carryover_eod, loc[1].day, loc[1].st,
                           loc[1].safety_days)} :
          IF b.err THEN Goto(1, "raised", loc[1])
          ELSE Goto(1, "returned", [loc[1] EXCEPT !.st = b.st])
    /\ UNCHANGED <<picks, players, draft_queue, team_prefs, overrides,
                   last_on_clock, now>>

InitWalk ==
    /\ \E T \in 1..WalkPicks : \E k \in 0..T :
          /\ picks = PicksWithDrafted(T, 0..(k - 1))
          /\ players = PlayersWithDrafted(T, 0..(k - 1))
    /\ draft_queue = {}
    /\ team_prefs = NoPrefs
    /\ overrides = NoOverrides
    /\ last_on_clock = 0
    /\ now \in WalkNows
    /\ pc = IdleThreads
    /\ loc = NoLocals

NextWalk == WalkBegin \/ WalkDay \/ WalkExit

\* the interpreter runs the call on
SpecWalk == InitWalk /\ [][NextWalk]_vars /\ WF_vars(NextWalk)

\* the call of thread 1 has ended
WalkEnded == pc[1] \in {"returned", "raised"}

\* C14: the day-by-day overflow walk always terminates: it stops as soon
\* as every undrafted pick has a scheduled time, and otherwise after at most
\* SAFETY_DAYS iterations.  Every call ends, with at most SAFETY_DAYS
\* iterations made, and when it returns, none of them was made with every
\* undrafted pick already scheduled: the last iteration or the backstop
\* placed a pick.
C14_WalkTerminates ==
    <>[](/\ WalkEnded
         /\ loc[1].safety_days <= SAFETY_DAYS
         /\ (pc[1] = "returned" /\ loc[1].safety_days > 0)
               => \E i \in DOMAIN loc[1].st :
                     /\ i \in Missed
                     /\ DayOf(loc[1].st[i]) >= loc[1].day - 1)

\* a call that ran into the cap and whose backstop placed a pick
C14_Witness ==
    /\ pc[1] = "returned"
    /\ loc[1].safety_days = SAFETY_DAYS
    /\ \E i \in DOMAIN loc[1].st : DayOf(loc[1].st[i]) = loc[1].day

---------------------------------------------------------------------------
(* The enforcement tick on the current state of Spec.                      *)

\* what one call of enforce_queue_actions would do now
TickOutcomes == {enforce_queue_actions(DB, overrides, now, mail_ok) : mail_ok \in BOOLEAN}

\* C15: a single enforcement tick, Phase 1 and Phase 2 together, assigns a
\* player to at most one pick.
C15_TickAssignsAtMostOnePick ==
    \A r \in TickOutcomes : Cardinality(r.drafted) <= 1

\* what Phase 1 of one call of enforce_queue_actions would do now
Phase1Outcomes == {enforce_phase1(DB, overrides, now, mail_ok) : mail_ok \in BOOLEAN}

\* the undrafted picks past their deadline
PastDeadline == {i \in Undrafted : now >= ND[i]}

\* the players a team has queued that are unowned and eligible
QueuedAvailable(team) ==
    {r.player_id : r \in {q \in draft_queue : q.team = team
                                             /\ q.player_id \in DOMAIN players
                                             /\ players[q.player_id].franchise = ""
                                             /\ players[q.player_id].eligible = 1}}

\* C16: Phase 1 considers exactly one pick, the first undrafted pick in
\* order with now >= its nextDeadline: it assigns nothing when there is no
\* such pick, it assigns that pick only if its team is end-of-clock and has
\* an unowned eligible queued player (whom it then gets), and it leaves
\* every other pick as it was.
C16_Phase1OnlyFirstMissedPick ==
    \A r \in Phase1Outcomes :
        /\ \A i \in DOMAIN picks :
              r.db.picks[i] # picks[i] =>
                 /\ i \in PastDeadline
                 /\ \A j \in PastDeadline : i <= j
                 /\ team_prefs[picks[i].team] # "start"
                 /\ r.db.picks[i].player_id \in QueuedAvailable(picks[i].team)
                 /\ r.db.picks[i].team = picks[i].team
        /\ r.drafted = {i \in DOMAIN picks : r.db.picks[i] # picks[i]}

\* Phase 1 assigns the first missed pick while a later pick is past its
\* deadline too and has a queued player of its own
C16_Witness ==
    \E r \in Phase1Outcomes : \E i \in r.drafted : \E j \in PastDeadline :
        /\ i < j
        /\ team_prefs[picks[j].team] # "start"
        /\ QueuedAvailable(picks[j].team) # {}
        /\ picks[j].team # picks[i].team

\* the undrafted picks past their deadline whose team is end-of-clock and
\* has an unowned eligible player queued
DueEndOfClock ==
    {i \in PastDeadline : /\ team_prefs[picks[i].team] # "start"
                          /\ QueuedAvailable(picks[i].team) # {}}

\* one call leaves pick i assigned to the top available player of its
\* team's queue, with drafted_at set
AssignedFromQueue(r, i) ==
    /\ r.db.picks[i].player_id = get_team_queue_top_available(DB, picks[i].team)
    /\ r.db.picks[i].player_id \in QueuedAvailable(picks[i].team)
    /\ r.db.picks[i].drafted_at # 0
    /\ r.db.players[r.db.picks[i].player_id].franchise = picks[i].team

---------------------------------------------------------------------------
(* SpecTick: the scheduler calls enforce_queue_actions again and again     *)
(* while nothing else happens and now stands still.  The teams have queued *)
(* what they want and set their policies beforehand; the calls start at    *)
(* any hour from the opening of the first pick to LastTick.                *)

InitTick ==
    /\ picks = PicksWithDrafted(NPicks, {})
    /\ players = InitPlayers
    /\ \E qa \in Orders \cup {<<>>}, qb \in Orders \cup {<<>>} :
          draft_queue = QueueOf("A", qa) \cup QueueOf("B", qb)
    /\ team_prefs \in [Teams -> {"none", "start"}]
    /\ overrides = NoOverrides
    /\ last_on_clock = 0
    /\ now \in DAY_FIRST_HOUR..LastTick
    /\ pc = IdleThreads
    /\ loc = NoLocals

NextTick == EnforceQueue

\* every call that would change something is eventually made
SpecTick == InitTick /\ [][NextTick]_vars /\ WF_vars(EnforceQueue)

\* C18: with now fixed and no other operation, repeated calls of
\* enforce_queue_actions make progress: every undrafted pick that is past
\* its deadline, whose team is end-of-clock and has an unowned eligible
\* player queued, is eventually assigned (or its team's queue runs out of
\* such players first), even when an earlier missed pick belongs to a team
\* with an empty queue or a start-of-clock policy.
C18_DuePickEventuallyAssigned ==
    \A i \in 0..(NPicks - 1) :
        (i \in DueEndOfClock) ~>
            (picks[i].player_id # 0 \/ QueuedAvailable(picks[i].team) = {})

---------------------------------------------------------------------------
(* Phase 2 on the rows Phase 1 leaves behind.                              *)

\* the rows Phase 2 of a call made now would start from
Phase2Inputs == {p1.db : p1 \in {q \in Phase1Outcomes : q.raised = "ok"}}

\* the unowned eligible players a team has queued in db
QueuedAvailableIn(db, team) ==
    {r.player_id : r \in {q \in db.draft_queue : q.team = team
                                                /\ q.player_id \in DOMAIN db.players
                                                /\ db.players[q.player_id].franchise = ""
                                                /\ db.players[q.player_id].eligible = 1}}

\* C19: Phase 2: if the team of the on-clock pick is start-of-clock and its
\* queue holds an unowned eligible player, the top such player is assigned
\* to the on-clock pick in the same invocation; if that team is
\* end-of-clock, or its queue holds no such player, or no pick is on the
\* clock, Phase 2 assigns nothing.
C19_Phase2DraftsForStartOfClock ==
    \A db \in Phase2Inputs : \A mail_ok \in BOOLEAN :
    \A cur \in {get_current_on_clock_pick(db.picks, overrides, now)} :
    \A p2 \in {enforce_phase2(db, overrides, now, mail_ok)} :
        IF /\ ~cur.err
           /\ cur.idx # -1
           /\ db.team_prefs[db.picks[cur.idx].team] = "start"
           /\ QueuedAvailableIn(db, db.picks[cur.idx].team) # {}
        THEN /\ p2.db.picks[cur.idx].player_id
                    = get_team_queue_top_available(db, db.picks[cur.idx].team)
             /\ p2.db.picks[cur.idx].player_id
                    \in QueuedAvailableIn(db, db.picks[cur.idx].team)
             /\ p2.db.picks[cur.idx].drafted_at # 0
             /\ p2.db.players[p2.db.picks[cur.idx].player_id].franchise
                    = db.picks[cur.idx].team
             /\ \A j \in DOMAIN db.picks \ {cur.idx} : p2.db.picks[j] = db.picks[j]
        ELSE /\ p2.db.picks = db.picks
             /\ p2.db.players = db.players
             /\ p2.db.draft_queue = db.draft_queue

\* Phase 2 drafts the second of two queued players for the on-clock pick of
\* a start-of-clock team after Phase 1 has drafted for a missed pick
C19_Witness ==
    \E p1 \in Phase1Outcomes : \E mail_ok \in BOOLEAN :
        /\ p1.raised = "ok"
        /\ p1.drafted # {}
        /\ enforce_phase2(p1.db, overrides, now, mail_ok).drafted # {}

---------------------------------------------------------------------------
(* Draft attempts on the current state of Spec.                            *)

\* the player ids a draft attempt can name: 0 is no row of players
TargetIds == 0..(NPlayers + 1)

\* the targets that do not exist, are owned or are not eligible
BadTargets ==
    {pid \in TargetIds : \/ pid \notin DOMAIN players
                         \/ players[pid].franchise # ""
                         \/ players[pid].eligible # 1}

\* franchises, picks and queue entries are as before the attempt
NothingChanged(db) ==
    /\ db.players = players
    /\ db.picks = picks
    /\ db.draft_queue = draft_queue

\* C20: a draft attempt (perform_draft_internal or api_draft) whose target
\* player does not exist, is owned or is not eligible aborts with an error
\* and changes no player's franchise, no pick's player_id or drafted_at and
\* no queue entry.
C20_BadTargetChangesNothing ==
    \A pid \in BadTargets : \A team \in Teams :
        /\ \A id \in 1..NPicks :
              \A d \in {perform_draft_internal(DB, team, pid, id)} :
                  d.raised # "ok" /\ NothingChanged(d.db)
        /\ \A current \in {get_current_pick(DB, overrides, now)} :
           \A mail_ok \in BOOLEAN :
              \A r \in {api_draft(DB, overrides, now, current, team, pid, mail_ok)} :
                  r.status \in {400, 401, 403, 404, 409, 500} /\ NothingChanged(r.db)

\* the team on the clock names an owned player and one that is not
\* eligible while it has a player queued: both requests end with 409
C20_Witness ==
    \E current \in {get_current_pick(DB, overrides, now)} :
        /\ ~current.err
        /\ current.idx # -1
        /\ QueuedAvailable(picks[current.idx].team) # {}
        /\ \E pid \in BadTargets :
              /\ pid \in Owned(players)
              /\ api_draft(DB, overrides, now, current, picks[current.idx].team,
                           pid, TRUE).status = 409
        /\ api_draft(DB, overrides, now, current, picks[current.idx].team,
                     NPlayers + 1, TRUE).status = 409

---------------------------------------------------------------------------
(* Claims on the queues *)

\* the queue rows whose player has been drafted
StaleRows == {r \in draft_queue : r.player_id \in Owned(players)}

\* C21: in every reachable state, under any interleaving of drafts with
\* queue additions, no team's queue contains a player that has been
\* drafted.  Stated for the states in which every request has returned, so
\* that the moment between the commit of the assignment and the DELETE on
\* draft_queue does not count.
C21_NoDraftedPlayerQueued ==
    (\A th \in Threads : pc[th] = "idle") => StaleRows = {}

---------------------------------------------------------------------------
(* Claims on failures around a draft *)

\* in db the pick i is assigned to an owned player who is in no queue
StandsIn(db, i) ==
    /\ db.picks[i].player_id # 0
    /\ db.picks[i].drafted_at # 0
    /\ db.players[db.picks[i].player_id].franchise = db.picks[i].team
    /\ \A r \in db.draft_queue : r.player_id # db.picks[i].player_id

\* the same picks, players and queues
SameRows(a, b) ==
    a.picks = b.picks /\ a.players = b.players /\ a.draft_queue = b.draft_queue

MissingPickIds == {0, Total(picks) + 1}

\* C23: a draft attempt that names a pick that does not exist aborts with no
\* partial state change: it raises, the target player is not marked as
\* owned and no queue entry goes.
C23_MissingPickChangesNothing ==
    \A team \in Teams, pid \in TargetIds, id \in MissingPickIds :
        \A d \in {perform_draft_internal(DB, team, pid, id)} :
            d.raised # "ok" /\ NothingChanged(d.db)

---------------------------------------------------------------------------
(* Claims on the reported deadline and on overrides *)

\* the designated time of pick i: its override when one parses, else its
\* base slot
DesignatedTime(i) ==
    IF (i + 1) \in DOMAIN overrides /\ overrides[i + 1].ok
    THEN astimezone_eastern(overrides[i + 1].utc)
    ELSE base_slot_for_index(i)

\* C24: the deadline get_current_pick_info reports for the on-clock pick i
\* is the designated time (override or base slot) of pick i + 1 in fixed
\* original order, whether or not pick i + 1 is drafted or has been moved to
\* overflow, and it is null exactly when pick i is the last pick in order.
\* Times are whole hours, which the report's minute precision keeps.
C24_DeadlineIsNextDesignated ==
    (~Info.err /\ Info.idx # -1) =>
        /\ Info.idx = OnClock.idx
        /\ Info.has_deadline <=> Info.idx + 1 < Total(picks)
        /\ Info.has_deadline => Info.deadline = DesignatedTime(Info.idx + 1)

\* the pick after the on-clock pick sits in an overflow slot later than the
\* reported deadline, which is its override
C24_Witness ==
    /\ ~Info.err
    /\ Info.idx # -1
    /\ Info.has_deadline
    /\ Info.idx + 1 \in Missed
    /\ Res.st[Info.idx + 1] # Info.deadline
    /\ (Info.idx + 2) \in DOMAIN Parsed

\* the pick after the on-clock pick is drafted, and the last pick is on the
\* clock without a deadline
C24_WitnessDrafted ==
    \/ /\ ~Info.err /\ Info.idx # -1 /\ Info.has_deadline
       /\ Drafted(picks, Info.idx + 1)
    \/ /\ ~Info.err /\ Info.idx # -1 /\ ~Info.has_deadline

\* the rows of pick_overrides without the row of draft_order_id k
WithoutRow(k) == [id \in DOMAIN overrides \ {k} |-> overrides[id]]

\* the rows of pick_overrides whose text does not parse
MalformedRows == {k \in DOMAIN overrides : ~overrides[k].ok}

\* C25: an override whose time value cannot be parsed is treated as absent:
\* the pick's designated time is its base slot, and designated times,
\* deadlines, resolved schedule, on-clock pick and reported pick are what
\* they are without the row, with no error raised.
C25_MalformedOverrideIsAbsent ==
    \A k \in MalformedRows :
        /\ (k - 1) \in DOMAIN picks => Des[k - 1] = base_slot_for_index(k - 1)
        /\ Des = Designated(picks, WithoutRow(k))
        /\ ND_of(picks, overrides) = ND_of(picks, WithoutRow(k))
        /\ Res = compute_scheduled_times(picks, WithoutRow(k), now)
        /\ OnClock = get_current_on_clock_pick(picks, WithoutRow(k), now)
        /\ Info = get_current_pick_info(picks, WithoutRow(k), now)
        /\ ~Res.err /\ ~OnClock.err /\ ~Info.err

\* an undrafted pick has a malformed override, a later one an override that
\* parses, and the first has been missed
C25_Witness ==
    \E k \in MalformedRows :
        /\ (k - 1) \in Missed
        /\ \E j \in DOMAIN Parsed : j > k /\ (j - 1) \in Undrafted

---------------------------------------------------------------------------
(* Claims on the clock after a miss *)

\* picks 1 and 2 are undrafted and now has reached the designated time of
\* pick 2 but not that of pick 3
FirstPickJustMissed ==
    /\ Total(picks) >= 3
    /\ {0, 1} \subseteq Undrafted
    /\ Des[1] <= now
    /\ now < Des[2]

\* pick 1 sits at the overflow hour of its designated day, pick 2 at its
\* designated time, and pick 2 is on the clock
SecondPickOnClock ==
    /\ ~Res.err
    /\ Res.st[0] = At(DayOf(Des[0]), END_OF_DAY_MISS_HOUR)
    /\ Res.st[1] = Des[1]
    /\ OnClock.idx = 1

\* the on-clock pick is an undrafted pick with the earliest resolved time
EarliestResolvedOnClock ==
    (~OnClock.err /\ OnClock.idx # -1) =>
        /\ OnClock.idx \in Undrafted
        /\ \A j \in Undrafted :
              ScheduledOf(Res, Des, OnClock.idx) <= ScheduledOf(Res, Des, j)

\* C26 as stated: when pick 1 is undrafted and now has reached pick 2's
\* designated time but not pick 3's, pick 1 is scheduled at 19:00 of its
\* designated day, pick 2 stays at its designated time and pick 2 is on the
\* clock; the on-clock pick is the undrafted pick with the earliest resolved
\* time.
C26_MissedPickLosesClock ==
    /\ FirstPickJustMissed => SecondPickOnClock
    /\ EarliestResolvedOnClock

\* C26, amended: the same when no override is in force, every pick being at
\* its base slot.
C26_MissedPickLosesClockAtBaseSlots ==
    /\ (FirstPickJustMissed /\ DOMAIN Parsed = {}) => SecondPickOnClock
    /\ EarliestResolvedOnClock

\* three or more picks at their base slots, the first two undrafted, at
\* 10:00: pick 1 waits at 19:00 and pick 2 has the clock
C26_Witness ==
    /\ FirstPickJustMissed
    /\ DOMAIN Parsed = {}
    /\ SecondPickOnClock
    /\ 2 \in Undrafted

---------------------------------------------------------------------------
(* Claims on what the schedule depends on *)

\* the draft order with the same picks assigned, rebuilt from the set of
\* assigned picks alone: which player a pick holds is forgotten
SameAssignments == PicksWithDrafted(Total(picks), Assigned(picks))

---------------------------------------------------------------------------
(* Claims on the on-clock notification *)

\* C28: notify_if_new_on_clock is edge-triggered: it sends iff a pick is on
\* the clock and its id differs from the persisted last-notified id, and
\* after sending it persists that id; a call that follows with the same
\* pick on the clock sends nothing, a call whose e-mail fails persists
\* nothing, and a completed draft sends nothing.
C28_NotificationIsEdgeTriggered ==
    \A sent \in {notify_emits(DB, overrides, now, TRUE)} :
    \A after \in {notify_if_new_on_clock(DB, overrides, now, TRUE)} :
        /\ sent <=> (~OnClock.err /\ OnClock.idx # -1
                        /\ last_on_clock # OnClock.idx + 1)
        /\ sent => after.last_on_clock = OnClock.idx + 1
        /\ ~sent => after = DB
        /\ SameRows(after, DB) /\ after.team_prefs = team_prefs
        /\ ~notify_emits(after, overrides, now, TRUE)
        /\ notify_if_new_on_clock(after, overrides, now, TRUE) = after
        /\ ~notify_emits(DB, overrides, now, FALSE)
        /\ notify_if_new_on_clock(DB, overrides, now, FALSE) = DB
        /\ Undrafted = {} => ~sent

\* another pick than the one last notified is on the clock: the call sends
\* and persists its id
C28_Witness ==
    /\ last_on_clock # 0
    /\ OnClock.idx # -1
    /\ last_on_clock # OnClock.idx + 1
    /\ notify_emits(DB, overrides, now, TRUE)
    /\ notify_if_new_on_clock(DB, overrides, now, TRUE).last_on_clock = OnClock.idx + 1

---------------------------------------------------------------------------
(* Claims on the manual draft *)

\* the sessions a request can come with: the authenticated team, or ""
\* when not logged in for the selected team
Sessions == Teams \cup {""}

\* C29: a manual draft is committed only when the caller's authenticated
\* team is the team of the current on-clock pick, and it assigns the player
\* to that pick; the pick's scheduled time is no gate: with an unowned
\* eligible player the on-clock team's draft succeeds whether or not now has
\* reached it.  Not logged in, not that team's pick or draft complete: no
\* state changes.
C29_ManualDraftOnlyByOnClockTeam ==
    \A current \in {get_current_pick(DB, overrides, now)} :
    \A on_clock \in {OnClock} :
        /\ current = on_clock
        /\ \A team \in Sessions, pid \in TargetIds, mail_ok \in BOOLEAN :
           \A r \in {api_draft(DB, overrides, now, current, team, pid, mail_ok)} :
              /\ r.status = 204 =>
                    /\ on_clock.idx # -1
                    /\ team = picks[on_clock.idx].team
                    /\ picks[on_clock.idx].player_id = 0
                    /\ r.db.picks[on_clock.idx].player_id = pid
                    /\ r.db.picks[on_clock.idx].drafted_at # 0
                    /\ r.db.players[pid].franchise = team
              /\ (on_clock.idx = -1 \/ team = ""
                     \/ team # picks[on_clock.idx].team) =>
                    /\ r.status \in {400, 401, 403, 500}
                    /\ r.db = DB
              /\ (~on_clock.err /\ on_clock.idx # -1
                     /\ team = picks[on_clock.idx].team
                     /\ pid \notin BadTargets) => r.status = 204

\* the on-clock team drafts before the scheduled time of its pick, and the
\* other team is turned away
C29_Witness ==
    /\ ~OnClock.err
    /\ OnClock.idx # -1
    /\ now < ScheduledOf(Res, Des, OnClock.idx)
    /\ \E pid \in TargetIds \ BadTargets :
          /\ api_draft(DB, overrides, now, OnClock, picks[OnClock.idx].team,
                       pid, TRUE).status = 204
          /\ \E team \in Teams :
                api_draft(DB, overrides, now, OnClock, team, pid, TRUE).status = 403

---------------------------------------------------------------------------
(* Claims on queue membership *)

\* the rows of a team's queue that hold player pid
RowsOf(team, pid) == {r \in draft_queue : r.team = team /\ r.player_id = pid}

\* C30: after any sequence of queue add, remove and reorder operations,
\* each team's queue contains any given player at most once, and adding a
\* player already in that team's queue leaves the queue unchanged.
C30_NoDuplicateInQueue ==
    \A team \in Teams, pid \in TargetIds :
        /\ Cardinality(RowsOf(team, pid)) <= 1
        /\ RowsOf(team, pid) # {} => api_queue_add(DB, team, pid) = DB

\* a team has two players queued, reordered against the order of their
\* insertion, and adds one of them again
C30_Witness ==
    \E team \in Teams : \E r \in draft_queue : \E q \in draft_queue :
        /\ r.team = team /\ q.team = team
        /\ r.id < q.id /\ r.position > q.position
        /\ api_queue_add(DB, team, r.player_id) = DB
        /\ players[r.player_id].franchise = ""

---------------------------------------------------------------------------
(* Claims on assignments under concurrent requests *)

\* C31: in every reachable state, including interleavings of concurrent
\* manual and automatic drafts that target different picks, no player is
\* assigned to more than one pick.
C31_NoPlayerOnTwoPicks ==
    \A i \in Assigned(picks) : \A j \in Assigned(picks) :
        picks[i].player_id = picks[j].player_id => i = j

---------------------------------------------------------------------------
(* Claims on what the enforcement tick assigns *)

\* the picks one call of enforce_queue_actions assigns
NewlyAssigned(r) == Assigned(r.db.picks) \ Assigned(picks)

\* C32: enforce_queue_actions never assigns a pick of a team whose policy is
\* end-of-clock (a team with no stored preference included) while now is
\* before that pick's nextDeadline, even when that pick is the on-clock pick
\* and the team's queue is non-empty.
C32_NoEarlyDraftForEndOfClock ==
    \A r \in TickOutcomes : \A i \in NewlyAssigned(r) :
        team_prefs[picks[i].team] # "start" => now >= ND[i]

\* the on-clock pick belongs to an end-of-clock team with a queued available
\* player and is before its deadline; the tick assigns an earlier missed
\* pick and leaves the on-clock pick alone
C32_Witness ==
    \E on_clock \in {OnClock} :
        /\ ~on_clock.err
        /\ on_clock.idx \in Undrafted
        /\ team_prefs[picks[on_clock.idx].team] # "start"
        /\ QueuedAvailable(picks[on_clock.idx].team) # {}
        /\ now < ND[on_clock.idx]
        /\ \E r \in TickOutcomes :
              /\ NewlyAssigned(r) # {}
              /\ on_clock.idx \notin NewlyAssigned(r)

\* the queue rows of a team whose player is unowned and eligible
AvailableRows(team) ==
    {q \in draft_queue : /\ q.team = team
                         /\ q.player_id \in DOMAIN players
                         /\ players[q.player_id].franchise = ""
                         /\ players[q.player_id].eligible = 1}

\* C33: every automatic assignment gives a pick a player taken from the
\* queue of that pick's own team: the player enforce_queue_actions chooses
\* is the entry with the lowest queue position among that team's entries
\* that are unowned and eligible (owned or ineligible entries ahead of it are
\* skipped), and the assignment writes that player to the pick and makes the
\* pick's team its owner.
C33_AutoDraftTakesTopAvailable ==
    [][\A th \in Threads :
          /\ (pc[th] = "choose" /\ pc'[th] = "validate") =>
                \E r \in AvailableRows(picks[loc'[th].idx].team) :
                    /\ r.player_id = loc'[th].pid
                    /\ loc'[th].team = picks[loc'[th].idx].team
                    /\ \A q \in AvailableRows(r.team) : r.position <= q.position
          /\ (pc[th] = "write" /\ pc'[th] = "after" /\ loc[th].op \in {"phase1", "phase2"}) =>
                /\ picks'[loc[th].idx].player_id = loc[th].pid
                /\ players'[loc[th].pid].franchise = picks[loc[th].idx].team]_vars

\* an automatic assignment has just been written, and the team's queue holds
\* an owned player at a lower position than the player assigned
C33_Witness ==
    \E th \in Threads :
        /\ pc[th] = "after"
        /\ loc[th].op \in {"phase1", "phase2"}
        /\ picks[loc[th].idx].player_id = loc[th].pid
        /\ \E r \in draft_queue, q \in draft_queue :
              /\ r.team = loc[th].team /\ q.team = loc[th].team
              /\ r.player_id = loc[th].pid
              /\ q.position < r.position
              /\ players[q.player_id].franchise # ""

---------------------------------------------------------------------------
(* compute_rows: the schedule the order page shows *)

\* the dict `overrides` compute_rows builds from pick_overrides
rows_overrides(ov) ==
    [id \in {k \in DOMAIN ov : ov[k].ok} |-> astimezone_eastern(ov[id].utc)]

\* mutant: the base slots, whatever the overrides
rows_designated_BaseOnly(pk, ov) == [i \in DOMAIN pk |-> base_slot_for_index(i)]

\* designated.append(overrides.get(rec["id"], bt))
rows_designated(pk, ov) ==
    Only({[i \in DOMAIN pk |->
              IF (i + 1) \in DOMAIN o THEN o[i + 1] ELSE base_slot_for_index(i)] :
             o \in {rows_overrides(ov)}})

\* next_deadlines of compute_rows
rows_next_deadlines(pk, des) ==
    [i \in DOMAIN pk |->
        IF i + 1 < Cardinality(DOMAIN pk) THEN des[i + 1]
        ELSE des[i] + 24 * LAST_PICK_GRACE_DAYS]

\* undrafted_idxs of compute_rows
rows_undrafted(pk) == {i \in DOMAIN pk : pk[i].player_id = 0}

\* missed_by_day.get(day, []) of compute_rows
rows_missed_by_day(pk, des, nd, t, day) ==
    AscendingSeq({i \in rows_undrafted(pk) : t >= nd[i] /\ DayOf(des[i]) = day})

\* `for j, idx in enumerate(evening_queue)` of compute_rows from position j
\* on: err is a ValueError out of datetime(), carry is new_carryover
RECURSIVE rows_queue_loop(_, _, _, _, _, _)
rows_queue_loop(queue, j, day, t, new_carryover, st) ==
    IF j >= Len(queue) THEN [err |-> FALSE, carry |-> new_carryover, st |-> st]
    ELSE IF \/ END_OF_DAY_MISS_HOUR + j > MAX_HOUR
            \/ (j + 1 < Len(queue) /\ END_OF_DAY_MISS_HOUR + j + 1 > MAX_HOUR)
    THEN [err |-> TRUE, carry |-> new_carryover, st |-> st]
    ELSE LET next_deadline ==
                 IF j + 1 < Len(queue) THEN At(day, END_OF_DAY_MISS_HOUR + j + 1)
                                       ELSE At(day + 1, DAY_FIRST_HOUR)
         IN  IF t >= next_deadline
             THEN Only({rows_queue_loop(queue, j + 1, day, t, c, st) :
                           c \in {Append(new_carryover, queue[j + 1])}})
             ELSE Only({rows_queue_loop(queue, j + 1, day, t, new_carryover, s) :
                           s \in {(queue[j + 1] :> At(day, END_OF_DAY_MISS_HOUR + j)) @@ st}})

\* the backstop of compute_rows: leftovers on `day` from 19:00 on
rows_backstop(carry, day, st) ==
    [err |-> \E j \in 0..(Len(carry) - 1) : END_OF_DAY_MISS_HOUR + j > MAX_HOUR,
     st |-> [idx \in {carry[k] : k \in 1..Len(carry)} \cup DOMAIN st |->
               IF \E k \in 1..Len(carry) : carry[k] = idx
               THEN At(day, END_OF_DAY_MISS_HOUR
                              + (CHOOSE k \in 1..Len(carry) : carry[k] = idx) - 1)
               ELSE st[idx]]]

\* the while loop of compute_rows from `day` on
RECURSIVE rows_walk(_, _, _, _, _, _, _, _)
rows_walk(pk, des, nd, t, day, carryover_eod, st, safety_days) ==
    IF Cardinality(DOMAIN st) < Cardinality(rows_undrafted(pk))
          /\ safety_days < SAFETY_DAYS
    THEN Only({IF p.err THEN [err |-> TRUE, st |-> st]
               ELSE rows_walk(pk, des, nd, t, day + 1, p.carry, p.st, safety_days + 1) :
                  p \in {rows_queue_loop(rows_missed_by_day(pk, des, nd, t, day)
                                            \o carryover_eod, 0, day, t, <<>>, st)}})
    ELSE rows_backstop(carryover_eod, day, st)

\* compute_rows(now) up to step 4: err is a ValueError raised out of it, st
\* its dict scheduled_time
compute_rows_times(pk, ov, t) ==
    Only({Only({Only({rows_walk(pk, des, nd, t,
                                IF DOMAIN pk # {} THEN DayOf(Min({des[i] : i \in DOMAIN pk}))
                                                  ELSE DayOf(base_slot_for_index(0)),
                                <<>>, direct, 0) :
                         direct \in {[i \in {k \in rows_undrafted(pk) : ~(t >= nd[k])} |->
                                        des[i]]}}) :
                   nd \in {rows_next_deadlines(pk, des)}}) :
             des \in {rows_designated(pk, ov)}})

\* t = scheduled_time.get(i, designated[i]) of step 5
rows_time(pk, ov, st, i) ==
    IF i \in DOMAIN st THEN st[i] ELSE rows_designated(pk, ov)[i]

\* C34: the two schedule resolvers agree: for every pick sequence, override
\* map, assignment state and now, either both raise or both return, and the
\* scheduled time compute_rows uses for each undrafted pick equals the one
\* that _compute_scheduled_times returns for it.
C34_ResolversAgree ==
    \A rows \in {compute_rows_times(picks, overrides, now)} : \A res \in {Res} :
        /\ rows.err = res.err
        /\ ~res.err =>
              \A i \in Undrafted :
                  /\ i \in DOMAIN res.st
                  /\ rows_time(picks, overrides, rows.st, i) = res.st[i]

\* an override is in force, one missed pick sits in the overflow queue and
\* another has been carried over to the next day
C34_Witness ==
    \A res \in {Res} :
        /\ ~res.err
        /\ DOMAIN Parsed # {}
        /\ \E i \in Undrafted, k \in Undrafted :
              /\ HourOf(res.st[i]) >= END_OF_DAY_MISS_HOUR
              /\ DayOf(res.st[i]) = DayOf(Des[i])
              /\ HourOf(res.st[k]) >= END_OF_DAY_MISS_HOUR
              /\ DayOf(res.st[k]) > DayOf(Des[k])

---------------------------------------------------------------------------
(* Claims on picks and owners *)

\* C35: in every reachable state a pick has player_id set iff it has
\* drafted_at set, the player assigned to a pick has franchise equal to that
\* pick's team, and every player a draft has made owned is referenced by a
\* pick.
C35_PicksAndOwnersConsistent ==
    /\ \A i \in DOMAIN picks : (picks[i].player_id # 0) <=> (picks[i].drafted_at # 0)
    /\ \A i \in Assigned(picks) :
          players[picks[i].player_id].franchise = picks[i].team
    /\ \A p \in Owned(players) : \E i \in Assigned(picks) : picks[i].player_id = p

---------------------------------------------------------------------------
(* Claims on the schedule as the clock advances *)

(* SpecLate: the resolver when the operator writes the overrides in the     *)
(* evening, as debug.py does when it is run after the overflow hour: the   *)
(* instants 20:00 and 21:00 Eastern of day 0                               *)

LateOverrideRaws == {IsoUtc(24), IsoUtc(25)}

SetLateOverride == \E id \in 1..MaxPicks, raw \in LateOverrideRaws :
                      UpsertOverride(id, raw, MaxOverrides)

InitLate == InitSched

NextLate == AdvanceNow \/ SetLateOverride

SpecLate == InitLate /\ [][NextLate]_vars

\* C36: with overrides and assignments fixed, the scheduled time of every
\* undrafted pick is monotonically non-decreasing in now: when the clock
\* advances, no undrafted pick's scheduled time becomes earlier.
C36_ScheduleNeverMovesEarlier ==
    [][(now' > now /\ picks' = picks /\ overrides' = overrides) =>
          \A before \in {Res} : \A after \in {Res'} :
              (~before.err /\ ~after.err) =>
                  \A i \in Undrafted :
                      ScheduledOf(after, Des, i) >= ScheduledOf(before, Des, i)]_vars

---------------------------------------------------------------------------
(* Claims on the overflow walk and the slot calendar *)

\* C37: every missed pick the overflow walk finalises sits in a slot whose
\* own deadline is strictly after now, the deadline being the next overflow
\* slot of that day when another queue entry follows and 09:00 of the next
\* day otherwise; an entry whose slot deadline has been reached is not
\* finalised on that day.
C37_FinalisedSlotNotExpired ==
    \A res \in {Res} :
        ~res.err =>
            \A d \in WalkDays : \A q \in {QueueOn(d)} : \A k \in 1..Len(q) :
                \A deadline \in {IF k < Len(q) THEN At(d, END_OF_DAY_MISS_HOUR + k)
                                               ELSE At(d + 1, DAY_FIRST_HOUR)} :
                    /\ q[k] \in DOMAIN res.st
                    /\ (DayOf(res.st[q[k]]) = d) <=> (deadline > now)
                    /\ \A i \in Missed : DayOf(res.st[i]) \in WalkDays

\* two missed picks were re-missed on their own day and are finalised in
\* consecutive slots of the next day: the first one's deadline is the next
\* slot, the second one's is 09:00 of the day after
C37_Witness ==
    \A res \in {Res} :
        /\ ~res.err
        /\ \E a \in Missed, b \in Missed :
              /\ DayOf(res.st[a]) > DayOf(Des[a])
              /\ DayOf(res.st[b]) > DayOf(Des[b])
              /\ res.st[b] = res.st[a] + 1

---------------------------------------------------------------------------
(* SpecNotify: notify_if_new_on_clock() called by concurrent requests (a   *)
(* status poll, /tasks/scan_on_clock, a draft), one statement group per    *)
(* step.  pc[th] is "idle", "n_send" (the call has read the on-clock pick  *)
(* and the meta value and found them different) or "n_set" (send_email has *)
(* returned, set_meta is still to run); loc[th].idx is the pick it read.   *)

\* info = get_current_pick_info(); last_id = get_meta(...); the call goes on
\* only if there is a pick on the clock and last_id != cur_id
NotifyRead(th) ==
    /\ pc[th] = "idle"
    /\ \E info \in {get_current_pick_info(picks, overrides, now)} :
          /\ ~info.err
          /\ info.idx # -1
          /\ last_on_clock # info.idx + 1
          /\ Goto(th, "n_send", Local("notify", info.idx, picks[info.idx].team, 0))
    /\ UNCHANGED <<picks, players, draft_queue, team_prefs, overrides,
                   last_on_clock, now>>

\* if to_addr: send_email(...).  An exception out of send_email ends the
\* call before set_meta
NotifySend(th) ==
    /\ pc[th] = "n_send"
    /\ \E mail_ok \in BOOLEAN :
          IF loc[th].team \in TEAM_EMAILS /\ ~mail_ok
          THEN Goto(th, "idle", [op |-> "none"])
          ELSE Goto(th, "n_set", loc[th])
    /\ UNCHANGED <<picks, players, draft_queue, team_prefs, overrides,
                   last_on_clock, now>>

\* set_meta("last_on_clock_pick_id", cur_id)
NotifySetMeta(th) ==
    /\ pc[th] = "n_set"
    /\ last_on_clock' = loc[th].idx + 1
    /\ Goto(th, "idle", [op |-> "none"])
    /\ UNCHANGED <<picks, players, draft_queue, team_prefs, overrides, now>>

InitNotify ==
    /\ \E D \in SUBSET (0..(NPicks - 1)) :
          /\ picks = PicksWithDrafted(NPicks, D)
          /\ players = PlayersWithDrafted(NPicks, D)
    /\ draft_queue = {}
    /\ team_prefs = NoPrefs
    /\ overrides = NoOverrides
    /\ last_on_clock = 0
    /\ now = DAY_FIRST_HOUR
    /\ pc = IdleThreads
    /\ loc = NoLocals

NextNotify ==
    \/ \E th \in Threads : NotifyRead(th) \/ NotifySend(th) \/ NotifySetMeta(th)
    \/ ClockTick

SpecNotify == InitNotify /\ [][NextNotify]_vars

\* C38: when two notify_if_new_on_clock calls run concurrently for the same
\* change of on-clock pick, at most one of them emits the notification for
\* that pick: a call that has sent its e-mail finds neither that another
\* call has recorded that pick in the meantime nor that another call has
\* sent an e-mail for it too.
C38_OneNotificationPerChange ==
    \A th \in Threads :
        pc[th] = "n_set" =>
            /\ last_on_clock # loc[th].idx + 1
            /\ \A o \in Threads \ {th} :
                  ~(pc[o] = "n_set" /\ loc[o].idx = loc[th].idx)

---------------------------------------------------------------------------
(* Claims on the order of a queue *)

\* order lists exactly the players of queue q, each once
IsPermutationOf(order, q) ==
    /\ Len(order) = Len(q)
    /\ {order[k] : k \in DOMAIN order} = {q[k] : k \in DOMAIN q}

\* C39: queue order is preference order: a newly added player becomes the
\* last entry of the team's queue, also after removals and reorders, and
\* api_queue_reorder called with a permutation of the team's current queue
\* makes the queue read back in exactly that order, adds or removes no entry
\* and changes no other team's queue.
C39_QueueOrderIsPreferenceOrder ==
    LET QueueEntries(d) == {<<r.team, r.player_id>> : r \in d.draft_queue}
        OtherRows(d, tm) == {r \in d.draft_queue : r.team # tm}
    IN
    \A db \in {DB} : \A team \in Teams : \A q \in {get_team_queue(db, team)} :
        /\ \A pid \in TargetIds : \A added \in {api_queue_add(db, team, pid)} :
              added # db =>
                 /\ get_team_queue(added, team) = Append(q, pid)
                 /\ OtherRows(added, team) = OtherRows(db, team)
        /\ \A order \in Orders :
              IsPermutationOf(order, q) =>
                 \A sorted \in {api_queue_reorder(db, team, order)} :
                     /\ get_team_queue(sorted, team) = order
                     /\ QueueEntries(sorted) = QueueEntries(db)
                     /\ OtherRows(sorted, team) = OtherRows(db, team)

\* one team holds a single entry left at position 2 by a reorder and a
\* removal and can add another player; the other team holds two entries
\* that a reorder has put against the order of their insertion
C39_Witness ==
    \E ta \in Teams, tb \in Teams :
        /\ ta # tb
        /\ Len(get_team_queue(DB, ta)) = 1
        /\ \E r \in draft_queue : r.team = ta /\ r.position > 1
        /\ \E pid \in TargetIds : api_queue_add(DB, ta, pid) # DB
        /\ \E r \in draft_queue, q \in draft_queue :
              /\ r.team = tb /\ q.team = tb
              /\ r.id < q.id /\ r.position > q.position

\* C40: without overrides the base slots follow divmod(i, 10): pick i is at
\* hour 9 + (i mod 10); a slot day holds hourly slots from 09:00 to 18:00,
\* at most 10 of them and exactly 10 with the hours 09:00..18:00 once the
\* order goes on to a later day; baseSlot is strictly increasing in i; and
\* every base slot is strictly earlier than 19:00 of its own day.
C40_BaseSlotsTenPerDay ==
    LET PicksOnDay(day) == {n \in Idxs(picks) : DayOf(Des[n]) = day}
    IN
    DOMAIN Parsed = {} =>
        /\ \A i \in Idxs(picks) :
              /\ HourOf(Des[i]) = 9 + (i % 10)
              /\ Des[i] < At(DayOf(Des[i]), END_OF_DAY_MISS_HOUR)
              /\ \A j \in Idxs(picks) : i < j => Des[i] < Des[j]
        /\ \A i \in Idxs(picks) : \A d \in {DayOf(Des[i])} :
              /\ Cardinality(PicksOnDay(d)) <= 10
              /\ (\E j \in Idxs(picks) : DayOf(Des[j]) > d) =>
                    {HourOf(Des[k]) : k \in PicksOnDay(d)} = 9..18

\* a draft order of more than ten picks without overrides: the eleventh
\* pick opens the second day at 09:00
C40_Witness ==
    /\ DOMAIN Parsed = {}
    /\ Total(picks) > PICKS_PER_DAY
    /\ Des[PICKS_PER_DAY] = At(1, DAY_FIRST_HOUR)
    /\ Cardinality({i \in Idxs(picks) : DayOf(Des[i]) = 0}) = PICKS_PER_DAY

====
